---- MODULE Spec2Model ----
(***************************************************************************)
(* Proof-Of-Compute-Integrity: the verification-and-trust engine.          *)
(*                                                                         *)
(* The repository is a set of stand-alone scripts that share one design.   *)
(* Each script is a program of its own; the variable `script' says which   *)
(* one a behaviour is a run of, and every action is guarded by it:         *)
(*   "controller"      controller.py      the Controller class on its own  *)
(*   "scenario"        controller.py      the Controller fed by two         *)
(*                                        identities, proof by proof       *)
(*   "poci_demotiming" poci_demotiming.py verify_step                      *)
(*   "poci_demosim"    poci_demosim.py    verify_event                     *)
(*   "run_demo"        run_demo.py        make_event, append, verify_event *)
(*   "library"         lineage.py, models.py: make_event and the Lineage   *)
(*                                        Store called in any order        *)
(*   "crypto_utils"    crypto_utils.py    verify_signature on its own      *)
(*   "poci_demoreplay" poci_demoreplay.py verify_proof and its main loop   *)
(*   "poci_demo"       poci_demo.py       compute_consistency_score and    *)
(*                                        update_trust_state               *)
(*   "hash_payload"    crypto_utils.py    hash_payload and its encoding    *)
(*   "poci_demofork"   poci_demofork.py   verify_lineage and its main      *)
(*   "poci_demoadvpat" poci_demoadvpat.py the adversarial patterns         *)
(*   "poci_demov5"     poci_demov5.py     the two-model cycle              *)
(*   "poci_demorecovery" poci_demorecovery.py  Controller, DecayController *)
(*   "poci_demoMA", "poci_demoTRIAD", "poci_demobig", "poci_demoblind",    *)
(*   "poci_demochaos", "poci_demodrift": the Controller of each script     *)
(* poci_demotiming.py and poci_demosim.py are also run over long           *)
(* sequences, by two threads, and as the main program of the simulation.   *)
(*                                                                         *)
(* Numbers.  Trust weights and thetas are kept in hundredths (1.0 is 100,  *)
(* 0.03 is 3); every step size in the sources is a whole number of         *)
(* hundredths.  Timestamps are whole seconds.  Where a claim is about the  *)
(* exact value a float takes, the value is computed as binary64 computes   *)
(* it; where it is about a quotient, as an exact fraction.                 *)
(*                                                                         *)
(* Hashes and signatures.  A digest is modelled by the tuple of what was   *)
(* hashed, tagged with the hash function (collision-free); a signature by  *)
(* the pair of the signing key and the signed message, so that it verifies *)
(* exactly under that key for that message.                                *)
(***************************************************************************)
EXTENDS Integers, Sequences, FiniteSets, TLC

(***************************************************************************)
(* Bounds of the model.                                                    *)
(***************************************************************************)
\* calls of Controller.update / Controller.get explored in one run
MaxUpdates == 15
\* proofs submitted to verify_step / verify_event in one run
MaxCalls == 3
\* step indices 0..MaxStep whose hashes are submitted
MaxStep == 1
\* timestamps lie in 0..MaxTime, at and next to 0, the backward drift and the
\* future drift, so that each bound is met exactly and passed by one
MaxTime == 31
\* reference times handed to verify_step lie in 0..MaxGlobal
MaxGlobal == 1
\* events made by make_event, and events appended to the store, in one run
\* of the library
MaxMade == 2
MaxAppends == 2
\* calls after which the library's caller verifies no further event
MaxLibCalls == 5
\* the wall clock runs over 0..MaxClock
MaxClock == 2
\* proofs submitted to verify_step in one long run: the 14 rejections that
\* bring a fresh identity to weight 0.0 and theta 5.0, and one proof more
MaxLongCalls == 15
\* updates of the Controller made in any order before a run of equal ones
MaxFree == 20
\* length of a run of consecutive updates with the same flag
MaxRun == 57
\* calls of update_trust_state in one run
MaxBatch == 110
\* calls of update_trust_state explored after w has left 1.0
MaxMixed == 5
\* updates each of the two controllers of poci_demorecovery.py is given
MaxDecay == 6
\* steps of the two-model cycle of poci_demov5.py (its N_STEPS)
MaxCycles == 24
\* bad proofs the noisy model makes in one run of the cycle
MaxBad == 2
\* steps a phase of poci_demoadvpat.py runs for (its argument steps)
MaxAdvSteps == 400
\* the periods phase_periodic is run with (its argument period)
MinPeriod == 2
MaxPeriod == 6
\* steps in a chain handed to verify_lineage
MaxChain == 3
\* bytes in each string hashed by hash_payload (model_id, prev_hash, payload)
MaxBytes == 2
\* verifications of verify_step in progress at the same time
MaxThreads == 2
\* proofs collected in the list handed to compute_consistency_score
MaxList == 3
\* proofs each identity submits in a scenario run
MaxProofs == 100
\* invalid proofs the noisy identity submits in a scenario run
MaxInvalid == 20

VARIABLES
    script,          \* which script this behaviour runs
    state,           \* Controller.state: model_id -> [weight, theta]
    used_proofs,     \* set of (model_id, hash, signature) already accepted
    last_timestamp,  \* model_id -> timestamp of the last accepted proof
    call,            \* the last call made and its arguments
    pre,             \* what that call found on entry
    ret,             \* what that call returned ("True", "False", "None", or
                     \* the name of the exception it raised)
    reason,          \* the reason code that call printed
    updates,         \* the controller.update calls that call made, in order
    accepted,        \* history: the proofs of every call that returned True
    ncalls,          \* number of calls made so far
    store,           \* LineageStore.events_by_model: model_id -> list of Event
    index,           \* BaseModel.index of each model object
    pc,              \* where __main__ stands (run_demo.py), or the phase
                     \* being run and its loop counter (poci_demoadvpat.py)
    ev,              \* run_demo.py: the event __main__ holds
    clock,           \* the wall clock, in seconds
    controller,      \* poci_demoreplay.py: the Controller object
    tally,           \* history: per identity, the proofs submitted so far;
                     \* or the trail of the last updates
    made,            \* the events made and held by the caller
    highest,         \* history: model_id -> highest timestamp accepted so far
    threads,         \* the verifications in progress, each with its locals
    all_proofs,      \* poci_demo.py: the list of proofs __main__ has collected
    models_dict      \* poci_demosim.py __main__: model_id -> the model object

verifyVars == <<used_proofs, last_timestamp>>
demoVars == <<store, index, pc, ev>>
ghostVars == <<call, pre, ret, reason, updates, accepted, ncalls>>
histVars == <<highest, threads, all_proofs, models_dict>>
auxVars == <<tally, made, histVars>>

vars == <<script, state, used_proofs, last_timestamp,
          call, pre, ret, reason, updates, accepted, ncalls,
          store, index, pc, ev, clock, controller, tally, made,
          highest, threads, all_proofs, models_dict>>

Min(a, b) == IF a < b THEN a ELSE b
Max(a, b) == IF a > b THEN a ELSE b

\* dict assignment d[k] = v
Put(d, k, v) == [x \in DOMAIN d \cup {k} |-> IF x = k THEN v ELSE d[x]]

NoCall == [op |-> "none"]
\* pre.known: the identity had a trust record; pre.seen: the proof id was in
\* used_proofs; pre.last_t: the identity's last accepted timestamp, if any
NoPre == [known |-> FALSE, seen |-> FALSE, last_t |-> {}]
None == "None"
EmptyDict == [x \in {} |-> None]

\* the state of the scripts a behaviour does not run, and of the history
\* variables before the first call
NoHistory ==
    /\ call = NoCall
    /\ pre = NoPre
    /\ ret = None
    /\ reason = ""
    /\ updates = <<>>
    /\ accepted = {}
    /\ ncalls = 0
    /\ tally = EmptyDict
    /\ made = {}
    /\ highest = EmptyDict
    /\ threads = EmptyDict
    /\ all_proofs = <<>>
    /\ models_dict = EmptyDict
IdleVerify == used_proofs = {} /\ last_timestamp = EmptyDict
IdleDemo == store = EmptyDict /\ index = EmptyDict /\ pc = None /\ ev = None
IdleReplay == controller = None
IdleClock == clock = 0

(***************************************************************************)
(* controller.py                                                           *)
(***************************************************************************)
\* the identities run_demo.py drives the Controller with
ControllerIds == {"honest_core", "attacker"}

WEIGHT_INIT  == 100   \* "weight": 1.0
THETA_INIT   == 100   \* "theta": 1.0
WEIGHT_MAX   == 100   \* min(1.0, ...)
WEIGHT_MIN   == 0     \* max(0.0, ...)
THETA_MIN    == 50    \* max(0.5, ...)
THETA_MAX    == 500   \* min(5.0, ...)
REWARD_W     == 3     \* + 0.03
REWARD_THETA == 8     \* - 0.08
PENALTY_W    == 10    \* - 0.10
PENALTY_THETA == 30   \* + 0.30

Controller_ensure_ThetaAtMin(st, model_id) ==
    IF model_id \notin DOMAIN st
    THEN Put(st, model_id, [weight |-> WEIGHT_INIT, theta |-> THETA_MIN])
    ELSE st

Controller_ensure(st, model_id) ==
    IF model_id \notin DOMAIN st
    THEN Put(st, model_id, [weight |-> WEIGHT_INIT, theta |-> THETA_INIT])
    ELSE st

\* the punishment branch without its clamps
Controller_law_NoClamp(m, valid) ==
    IF valid
    THEN [weight |-> Min(WEIGHT_MAX, m.weight + REWARD_W),
          theta  |-> Max(THETA_MIN, m.theta - REWARD_THETA)]
    ELSE [weight |-> m.weight - PENALTY_W,
          theta  |-> m.theta + PENALTY_THETA]

\* the two branches taken for each other
Controller_law_Swapped(m, valid) ==
    IF ~valid
    THEN [weight |-> Min(WEIGHT_MAX, m.weight + REWARD_W),
          theta  |-> Max(THETA_MIN, m.theta - REWARD_THETA)]
    ELSE [weight |-> Max(WEIGHT_MIN, m.weight - PENALTY_W),
          theta  |-> Min(THETA_MAX, m.theta + PENALTY_THETA)]

\* the punishment branch without its weight penalty
Controller_law_NoWeightPenalty(m, valid) ==
    IF valid
    THEN [weight |-> Min(WEIGHT_MAX, m.weight + REWARD_W),
          theta  |-> Max(THETA_MIN, m.theta - REWARD_THETA)]
    ELSE [weight |-> m.weight,
          theta  |-> Min(THETA_MAX, m.theta + PENALTY_THETA)]

\* the reward branch without the floor of theta
Controller_law_NoFloor(m, valid) ==
    IF valid
    THEN [weight |-> Min(WEIGHT_MAX, m.weight + REWARD_W),
          theta  |-> m.theta - REWARD_THETA]
    ELSE [weight |-> Max(WEIGHT_MIN, m.weight - PENALTY_W),
          theta  |-> Min(THETA_MAX, m.theta + PENALTY_THETA)]

\* the punishment branch with a weight penalty smaller than the reward
Controller_law_WeakPenalty(m, valid) ==
    IF valid
    THEN [weight |-> Min(WEIGHT_MAX, m.weight + REWARD_W),
          theta  |-> Max(THETA_MIN, m.theta - REWARD_THETA)]
    ELSE [weight |-> Max(WEIGHT_MIN, m.weight - (REWARD_W - 1)),
          theta  |-> Min(THETA_MAX, m.theta + PENALTY_THETA)]

\* the body of Controller.update after _ensure: the update law on one record
Controller_law(m, valid) ==
    IF valid
    THEN [weight |-> Min(WEIGHT_MAX, m.weight + REWARD_W),
          theta  |-> Max(THETA_MIN, m.theta - REWARD_THETA)]
    ELSE [weight |-> Max(WEIGHT_MIN, m.weight - PENALTY_W),
          theta  |-> Min(THETA_MAX, m.theta + PENALTY_THETA)]

Controller_update(st, model_id, valid) ==
    LET s1 == Controller_ensure(st, model_id)
    IN  Put(s1, model_id, Controller_law(s1[model_id], valid))

\* Controller.get: the state afterwards and the (weight, theta) returned
Controller_get(st, model_id) ==
    LET s1 == Controller_ensure(st, model_id)
    IN  [state |-> s1, value |-> <<s1[model_id].weight, s1[model_id].theta>>]

InitController ==
    /\ script = "controller"
    /\ state = EmptyDict
    /\ NoHistory /\ IdleVerify /\ IdleDemo /\ IdleReplay /\ IdleClock

\* one call ctrl.update(model_id, valid)
UpdateCall(model_id, valid) ==
    /\ script = "controller"
    /\ ncalls < MaxUpdates
    /\ state' = Controller_update(state, model_id, valid)
    /\ call' = [op |-> "update", model_id |-> model_id, valid |-> valid]
    /\ ret' = None
    /\ pre' = [NoPre EXCEPT !.known = model_id \in DOMAIN state]
    /\ updates' = <<[model_id |-> model_id, valid |-> valid]>>
    /\ ncalls' = ncalls + 1
    /\ UNCHANGED <<script, verifyVars, demoVars, reason, accepted, clock,
                   controller, made, histVars>>

Update(model_id, valid) ==
    /\ UpdateCall(model_id, valid)
    /\ UNCHANGED tally

Get(model_id) ==
    /\ script = "controller"
    /\ ncalls < MaxUpdates
    /\ state' = Controller_get(state, model_id).state
    /\ call' = [op |-> "get", model_id |-> model_id]
    /\ ret' = Controller_get(state, model_id).value
    /\ pre' = [NoPre EXCEPT !.known = model_id \in DOMAIN state]
    /\ updates' = <<>>
    /\ ncalls' = ncalls + 1
    /\ UNCHANGED <<script, verifyVars, demoVars, reason, accepted, clock, controller, auxVars>>

NextController ==
    \/ \E model_id \in ControllerIds, valid \in BOOLEAN : Update(model_id, valid)
    \/ \E model_id \in ControllerIds : Get(model_id)

SpecController == InitController /\ [][NextController]_vars

(***************************************************************************)
(* The Controller fed by two identities in rounds, a proof of each per     *)
(* round: the honest identity's proofs are all valid, the noisy            *)
(* identity's valid or invalid.  tally keeps, per identity, how many       *)
(* proofs it has submitted, how many of them were invalid, whether valid   *)
(* and invalid have strictly alternated so far, whether every invalid      *)
(* proof so far came before every valid one, and the flag of its last      *)
(* proof.                                                                  *)
(***************************************************************************)
HonestId == "honest_core"
NoisyId == "attacker"

TallyInit ==
    [m \in ControllerIds |->
        [n |-> 0, invalid |-> 0, alternating |-> TRUE, invalid_first |-> TRUE,
         last |-> {}]]

TallyAdd(t, valid) ==
    [n |-> t.n + 1,
     invalid |-> t.invalid + (IF valid THEN 0 ELSE 1),
     alternating |-> t.alternating /\ valid \notin t.last,
     invalid_first |-> t.invalid_first /\ (valid \/ TRUE \notin t.last),
     last |-> {valid}]

InitScenario ==
    /\ script = "scenario"
    /\ state = EmptyDict
    /\ call = NoCall /\ pre = NoPre /\ ret = None /\ reason = ""
    /\ updates = <<>> /\ accepted = {} /\ ncalls = 0
    /\ tally = TallyInit
    /\ made = {}
    /\ highest = EmptyDict /\ threads = EmptyDict
    /\ all_proofs = <<>> /\ models_dict = EmptyDict
    /\ IdleVerify /\ IdleDemo /\ IdleReplay /\ IdleClock

\* one round: the honest identity submits its next proof, a valid one, and
\* the noisy identity its next proof, valid or not: two calls of ctrl.update
ScenarioRound(valid) ==
    /\ script = "scenario"
    /\ tally[NoisyId].n < MaxProofs
    /\ ~valid => tally[NoisyId].invalid < MaxInvalid
    /\ state' = Controller_update(Controller_update(state, HonestId, TRUE),
                                  NoisyId, valid)
    /\ tally' = [tally EXCEPT ![HonestId] = TallyAdd(@, TRUE),
                              ![NoisyId] = TallyAdd(@, valid)]
    /\ call' = [op |-> "update", model_id |-> NoisyId, valid |-> valid]
    /\ ret' = None
    /\ pre' = [NoPre EXCEPT !.known = NoisyId \in DOMAIN state]
    /\ updates' = <<[model_id |-> HonestId, valid |-> TRUE],
                    [model_id |-> NoisyId, valid |-> valid]>>
    /\ ncalls' = ncalls + 2
    /\ UNCHANGED <<script, verifyVars, demoVars, reason, accepted, clock,
                   controller, made, histVars>>

NextScenario == \E valid \in BOOLEAN : ScenarioRound(valid)

SpecScenario == InitScenario /\ [][NextScenario]_vars

(***************************************************************************)
(* C14.  Alternation scenario: an identity whose 10 proofs strictly        *)
(* alternate valid/invalid, starting with either, ends with a weight       *)
(* strictly lower than an identity with 10 consecutive valid proofs, both  *)
(* from a fresh record: 0.62 (valid first) or 0.65 (invalid first)         *)
(* against 1.0.                                                            *)
(***************************************************************************)
C14_AlternationLower ==
    (/\ script = "scenario"
     /\ tally[NoisyId].n = 10 /\ tally[NoisyId].alternating
     /\ tally[HonestId].n = 10 /\ tally[HonestId].invalid = 0) =>
        /\ state[NoisyId].weight < state[HonestId].weight
        /\ state[HonestId].weight = 100
        /\ state[NoisyId].weight = IF tally[NoisyId].last = {TRUE} THEN 65 ELSE 62

\* ten alternating proofs that began with an invalid one
C14_Witness ==
    /\ script = "scenario"
    /\ tally[NoisyId].n = 10 /\ tally[NoisyId].alternating
    /\ tally[NoisyId].last = {TRUE}
    /\ tally[HonestId].n = 10
    /\ state[NoisyId].weight = 65

(***************************************************************************)
(* C15.  Persistent gap, as claimed: for two fresh identities over 100     *)
(* proofs each, one with 0 invalid and one with 20 invalid proofs placed   *)
(* anywhere, the honest identity's final weight is strictly greater than   *)
(* the noisy identity's, including when all invalid proofs come first.     *)
(***************************************************************************)
C15_Original ==
    (/\ script = "scenario"
     /\ tally[HonestId].n = 100 /\ tally[HonestId].invalid = 0
     /\ tally[NoisyId].n = 100 /\ tally[NoisyId].invalid = 20) =>
        state[HonestId].weight > state[NoisyId].weight

(***************************************************************************)
(* C15 as amended: over 100 proofs each, the honest identity's final       *)
(* weight (1.0) is never lower than that of the identity with 20 invalid   *)
(* proofs; it is strictly greater when the noisy identity's last proof is  *)
(* invalid; when all 20 invalid proofs come first and 80 valid ones        *)
(* follow, the noisy identity's weight is back at 1.0 and the gap is       *)
(* closed.                                                                 *)
(***************************************************************************)
C15_GapCloses ==
    (/\ script = "scenario"
     /\ tally[HonestId].n = 100 /\ tally[HonestId].invalid = 0
     /\ tally[NoisyId].n = 100 /\ tally[NoisyId].invalid = 20) =>
        /\ state[HonestId].weight = 100
        /\ state[HonestId].weight >= state[NoisyId].weight
        /\ tally[NoisyId].last = {FALSE} =>
              state[HonestId].weight > state[NoisyId].weight
        /\ tally[NoisyId].invalid_first =>
              state[HonestId].weight = state[NoisyId].weight

\* 20 invalid proofs first, then 80 valid ones
C15_Witness ==
    /\ script = "scenario"
    /\ tally[HonestId].n = 100
    /\ tally[NoisyId].n = 100 /\ tally[NoisyId].invalid = 20
    /\ tally[NoisyId].invalid_first
    /\ state[NoisyId].weight = 100

(***************************************************************************)
(* C1.  After any finite sequence of Controller.update calls, with any     *)
(* valid flags and any identities, every identity's weight lies in         *)
(* [0.0, 1.0] and its theta in [0.5, 5.0].                                 *)
(***************************************************************************)
C1_WeightThetaBounds ==
    \A m \in DOMAIN state :
        /\ state[m].weight >= 0 /\ state[m].weight <= 100
        /\ state[m].theta >= 50 /\ state[m].theta <= 500

\* an identity driven into both punishment clamps (14 invalid updates from a
\* fresh record clamp theta, after the weight has been clamped)
C1_Witness ==
    /\ script = "controller"
    /\ call.op = "update"
    /\ \E m \in DOMAIN state : state[m].weight = 0 /\ state[m].theta = 500

(***************************************************************************)
(* C10.  Lazy creation.  As claimed: the first reference to an unseen      *)
(* model_id (update or get) creates its record with weight 1.0 and theta   *)
(* equal to theta_min, the least theta the update law produces (0.5).      *)
(* A record created by get is seen as created; one created by update is    *)
(* seen after the law has been applied once to it.                         *)
(***************************************************************************)
C10_Original ==
    [][\A m \in (DOMAIN state') \ (DOMAIN state) :
          /\ call'.op = "get" =>
                state'[m] = [weight |-> 100, theta |-> THETA_MIN]
          /\ (call'.op = "update" /\ call'.valid) =>
                state'[m] = [weight |-> 100, theta |-> THETA_MIN]
          /\ (call'.op = "update" /\ ~call'.valid) =>
                state'[m] = [weight |-> 90, theta |-> THETA_MIN + 30]]_vars

(***************************************************************************)
(* C10 as amended: the first reference creates the record with weight 1.0  *)
(* and theta 1.0, which is above theta_min = 0.5; get returns (1.0, 1.0),  *)
(* a first valid update leaves (1.0, 0.92) and a first invalid update      *)
(* leaves (0.90, 1.30).  Only the referenced identity gets a record.       *)
(***************************************************************************)
C10_LazyCreation ==
    [][/\ (DOMAIN state') \ (DOMAIN state) \subseteq {call'.model_id}
       /\ call'.model_id \in DOMAIN state'
       /\ \A m \in (DOMAIN state') \ (DOMAIN state) :
          /\ call'.op = "get" =>
                /\ state'[m] = [weight |-> 100, theta |-> 100]
                /\ ret' = <<100, 100>>
          /\ (call'.op = "update" /\ call'.valid) =>
                state'[m] = [weight |-> 100, theta |-> 92]
          /\ (call'.op = "update" /\ ~call'.valid) =>
                state'[m] = [weight |-> 90, theta |-> 130]]_vars

\* theta_min is what the law can reach: a record sits at theta 0.5 while a
\* second identity has just been created by its first reference
C10_Witness ==
    /\ script = "controller"
    /\ call.op = "get"
    /\ ~pre.known
    /\ state[call.model_id] = [weight |-> 100, theta |-> 100]
    /\ \E m \in DOMAIN state : m # call.model_id /\ state[m].theta = THETA_MIN

(***************************************************************************)
(* poci_demotiming.py: signature, replay and timestamp checks              *)
(***************************************************************************)
\* f"{key}:{message}": the signature string a key yields for a message
Sign(key, message) == <<key, message>>

\* message[::-1], the reversed message a cheating model signs (never the
\* message itself)
Reversed(message) == <<"reversed", message>>

hash_step(step_index) == <<"sha256", "step", step_index>>

\* the empty string where a digest is expected
EmptyHash == <<>>

verify_signature(model_key, signature, message) ==
    signature = Sign(model_key, message)

MODEL_KEYS == [m \in {"honest"} |-> "HONEST_KEY"]

MAX_FUTURE_DRIFT == 30
MAX_BACKWARD_DRIFT == 10

T_REWARD_W == 5        \* + 0.05
T_REWARD_THETA == 10   \* - 0.1
T_PENALTY_W == 10      \* - 0.1
T_PENALTY_THETA == 30  \* + 0.3

\* PerModelController._ensure and .update of poci_demotiming.py
PerModelController_update(st, model_id, valid) ==
    LET s1 == IF model_id \notin DOMAIN st
              THEN Put(st, model_id, [weight |-> 100, theta |-> 100])
              ELSE st
        m == s1[model_id]
    IN  Put(s1, model_id,
            IF valid
            THEN [weight |-> Min(100, m.weight + T_REWARD_W),
                  theta  |-> Max(50, m.theta - T_REWARD_THETA)]
            ELSE [weight |-> Max(0, m.weight - T_PENALTY_W),
                  theta  |-> Min(500, m.theta + T_PENALTY_THETA)])

\* last_timestamp.get(model_id, None), as a set: empty for None
Lookup(d, k) == IF k \in DOMAIN d THEN {d[k]} ELSE {}

\* what a call leaves behind: its return value, the reason it printed, and
\* the module globals afterwards
Outcome(r, why, used, last, st, upd) ==
    [ret |-> r, reason |-> why, used_proofs |-> used,
     last_timestamp |-> last, state |-> st, updates |-> upd]

\* MODEL_KEYS[model_id] on an unregistered identity
RaiseKeyError(used, last, st) == Outcome("KeyError", "", used, last, st, <<>>)

proof_id_of(step) == <<step.model_id, step.hash, step.signature>>

\* 1) Signature check
step_sig_valid(step) ==
    verify_signature(MODEL_KEYS[step.model_id], step.signature, step.hash)

\* 2) Replay check
step_is_replay(step, used) == proof_id_of(step) \in used

\* the future bound taken inclusively
step_in_future_Inclusive(step, global_time) ==
    step.timestamp >= global_time + MAX_FUTURE_DRIFT

\* 3) Future timestamp check
step_in_future(step, global_time) ==
    step.timestamp > global_time + MAX_FUTURE_DRIFT

\* the backward check with twice the drift
step_backdated_Twice(step, last) ==
    /\ step.model_id \in DOMAIN last
    /\ step.timestamp + 2 * MAX_BACKWARD_DRIFT < last[step.model_id]

\* 4) Backward timestamp / monotonicity check
step_backdated(step, last) ==
    /\ step.model_id \in DOMAIN last
    /\ step.timestamp + MAX_BACKWARD_DRIFT < last[step.model_id]

\* a failing branch: controller.update(model_id, False); print; return False
step_reject(step, why, used, last, st) ==
    Outcome("False", why, used, last,
            PerModelController_update(st, step.model_id, FALSE),
            <<[model_id |-> step.model_id, valid |-> FALSE]>>)

\* acceptance that forgets to record the proof id
step_accept_NoRecord(step, used, last, st) ==
    Outcome("True", "OK",
            used,
            Put(last, step.model_id, step.timestamp),
            PerModelController_update(st, step.model_id, TRUE),
            <<[model_id |-> step.model_id, valid |-> TRUE]>>)

\* "If all good"
step_accept(step, used, last, st) ==
    Outcome("True", "OK",
            used \cup {proof_id_of(step)},
            Put(last, step.model_id, step.timestamp),
            PerModelController_update(st, step.model_id, TRUE),
            <<[model_id |-> step.model_id, valid |-> TRUE]>>)

\* verification that refuses an identity whose weight has run out
verify_step_Lockout(step, global_time, used, last, st) ==
    IF step.model_id \notin DOMAIN MODEL_KEYS THEN RaiseKeyError(used, last, st)
    ELSE IF step.model_id \in DOMAIN st /\ st[step.model_id].weight = 0
         THEN step_reject(step, "LOCKED_OUT", used, last, st)
    ELSE IF ~step_sig_valid(step)
         THEN step_reject(step, "BAD_SIGNATURE", used, last, st)
    ELSE IF step_is_replay(step, used)
         THEN step_reject(step, "REPLAY_DETECTED", used, last, st)
    ELSE IF step_in_future(step, global_time)
         THEN step_reject(step, "TIMESTAMP_TOO_FAR_IN_FUTURE", used, last, st)
    ELSE IF step_backdated(step, last)
         THEN step_reject(step, "TIMESTAMP_BACKDATED", used, last, st)
    ELSE step_accept(step, used, last, st)

\* the timestamp checks run before the replay check
verify_step_TimeFirst(step, global_time, used, last, st) ==
    IF step.model_id \notin DOMAIN MODEL_KEYS THEN RaiseKeyError(used, last, st)
    ELSE IF ~step_sig_valid(step)
         THEN step_reject(step, "BAD_SIGNATURE", used, last, st)
    ELSE IF step_in_future(step, global_time)
         THEN step_reject(step, "TIMESTAMP_TOO_FAR_IN_FUTURE", used, last, st)
    ELSE IF step_backdated(step, last)
         THEN step_reject(step, "TIMESTAMP_BACKDATED", used, last, st)
    ELSE IF step_is_replay(step, used)
         THEN step_reject(step, "REPLAY_DETECTED", used, last, st)
    ELSE step_accept(step, used, last, st)

verify_step(step, global_time, used, last, st) ==
    IF step.model_id \notin DOMAIN MODEL_KEYS THEN RaiseKeyError(used, last, st)
    ELSE IF ~step_sig_valid(step)
         THEN step_reject(step, "BAD_SIGNATURE", used, last, st)
    ELSE IF step_is_replay(step, used)
         THEN step_reject(step, "REPLAY_DETECTED", used, last, st)
    ELSE IF step_in_future(step, global_time)
         THEN step_reject(step, "TIMESTAMP_TOO_FAR_IN_FUTURE", used, last, st)
    ELSE IF step_backdated(step, last)
         THEN step_reject(step, "TIMESTAMP_BACKDATED", used, last, st)
    ELSE step_accept(step, used, last, st)

\* the inputs explored: timestamps at and next to 0, the backward drift and
\* the future drift; per hash the honest signature, a forged one and the
\* honest signature of step 0 (an old signature on a new hash); one step of
\* an identity that has no key; one step whose hash is the empty string,
\* signed by the honest key
Times == {t \in 0..MaxTime :
            /\ t % MAX_BACKWARD_DRIFT \in {0, 1}
            /\ t <= MAX_BACKWARD_DRIFT + 1 \/ t >= MAX_FUTURE_DRIFT}
GlobalTimes == 0..MaxGlobal
StepHashes == {hash_step(i) : i \in 0..MaxStep}
SignaturesFor(h) ==
    {Sign("HONEST_KEY", h), Sign("ATTACKER_KEY", h),
     Sign("HONEST_KEY", hash_step(0))}
MkStep(model_id, h, sig, t) ==
    [model_id |-> model_id, hash |-> h, signature |-> sig, timestamp |-> t]
Steps ==
    {MkStep(m, h, sig, t) :
        m \in DOMAIN MODEL_KEYS,
        <<h, sig>> \in {hs \in StepHashes \X UNION {SignaturesFor(x) : x \in StepHashes} :
                          hs[2] \in SignaturesFor(hs[1])},
        t \in Times}
    \cup {MkStep("unregistered", hash_step(0), Sign("HONEST_KEY", hash_step(0)), 0)}
    \cup {MkStep("honest", EmptyHash, Sign("HONEST_KEY", EmptyHash), 0)}

InitTiming ==
    /\ script = "poci_demotiming"
    /\ state = EmptyDict
    /\ used_proofs = {}
    /\ last_timestamp = EmptyDict
    /\ NoHistory /\ IdleDemo /\ IdleReplay /\ IdleClock

\* what a verification finds on entry
PreOf(model_id, pid) ==
    [known |-> model_id \in DOMAIN state,
     seen |-> pid \in used_proofs,
     last_t |-> Lookup(last_timestamp, model_id)]

\* history: the highest timestamp accepted for an identity
Highest(model_id, timestamp, r) ==
    IF r # "True" THEN highest
    ELSE Put(highest, model_id,
             IF model_id \in DOMAIN highest
             THEN Max(highest[model_id], timestamp) ELSE timestamp)

\* one call verify_step(step, global_time)
VerifyStepCall(step, global_time) ==
    /\ script = "poci_demotiming"
    /\ \E out \in {verify_step(step, global_time, used_proofs, last_timestamp, state)} :
           /\ used_proofs' = out.used_proofs
           /\ last_timestamp' = out.last_timestamp
           /\ state' = out.state
           /\ ret' = out.ret
           /\ reason' = out.reason
           /\ updates' = out.updates
           /\ accepted' = IF out.ret = "True"
                          THEN accepted \cup {proof_id_of(step)} ELSE accepted
    /\ call' = [op |-> "verify_step", step |-> step, global_time |-> global_time]
    /\ pre' = PreOf(step.model_id, proof_id_of(step))
    /\ ncalls' = ncalls + 1
    /\ UNCHANGED <<script, demoVars, clock, controller, tally, made, threads,
                   all_proofs>>

VerifyStep(step, global_time) ==
    /\ ncalls < MaxCalls
    /\ VerifyStepCall(step, global_time)
    /\ UNCHANGED <<highest, models_dict>>

NextTiming == \E step \in Steps, global_time \in GlobalTimes :
                  VerifyStep(step, global_time)

SpecTiming == InitTiming /\ [][NextTiming]_vars

(***************************************************************************)
(* poci_demosim.py: the full network simulation's verify_event             *)
(***************************************************************************)
hash_event(global_step, model_id, logical_idx) ==
    <<"sha256", global_step, model_id, logical_idx>>

\* MODEL_KEYS once __main__ has registered the models: the honest core and
\* the time attacker of the six identities of the simulation
SIM_MODEL_KEYS ==
    [m \in {"honest_core", "time_0"} |->
        IF m = "honest_core" THEN "HONEST_CORE_KEY" ELSE "TIME_KEY_0"]

\* one trust record shared by all identities: the update reaches every record
SimController_update_Shared(st, model_id, valid) ==
    LET s1 == IF model_id \notin DOMAIN st
              THEN Put(st, model_id, [weight |-> 100, theta |-> 100])
              ELSE st
    IN  [x \in DOMAIN s1 |->
            IF valid
            THEN [weight |-> Min(100, s1[x].weight + REWARD_W),
                  theta  |-> Max(50, s1[x].theta - REWARD_THETA)]
            ELSE [weight |-> Max(0, s1[x].weight - PENALTY_W),
                  theta  |-> Min(500, s1[x].theta + PENALTY_THETA)]]

\* PerModelController._ensure and .update of poci_demosim.py
SimController_update(st, model_id, valid) ==
    LET s1 == IF model_id \notin DOMAIN st
              THEN Put(st, model_id, [weight |-> 100, theta |-> 100])
              ELSE st
        m == s1[model_id]
    IN  Put(s1, model_id,
            IF valid
            THEN [weight |-> Min(100, m.weight + REWARD_W),
                  theta  |-> Max(50, m.theta - REWARD_THETA)]
            ELSE [weight |-> Max(0, m.weight - PENALTY_W),
                  theta  |-> Min(500, m.theta + PENALTY_THETA)])

\* a rejection that punishes twice
event_reject_Twice(model_id, why, used, last, st) ==
    Outcome("False", why, used, last,
            SimController_update(SimController_update(st, model_id, FALSE),
                                 model_id, FALSE),
            <<[model_id |-> model_id, valid |-> FALSE],
              [model_id |-> model_id, valid |-> FALSE]>>)

\* a failing branch: controller.update(model_id, False); print; return False
event_reject(model_id, why, used, last, st) ==
    Outcome("False", why, used, last,
            SimController_update(st, model_id, FALSE),
            <<[model_id |-> model_id, valid |-> FALSE]>>)

\* acceptance that keeps one clock for all identities
event_accept_OneClock(model_id, timestamp, h, sig, used, last, st) ==
    Outcome("True", "OK",
            used \cup {<<model_id, h, sig>>},
            [x \in DOMAIN last \cup {model_id} |-> timestamp],
            SimController_update(st, model_id, TRUE),
            <<[model_id |-> model_id, valid |-> TRUE]>>)

\* "All good"
event_accept(model_id, timestamp, h, sig, used, last, st) ==
    Outcome("True", "OK",
            used \cup {<<model_id, h, sig>>},
            Put(last, model_id, timestamp),
            SimController_update(st, model_id, TRUE),
            <<[model_id |-> model_id, valid |-> TRUE]>>)

\* verification that takes the identity's last accepted timestamp for the
\* wall clock
verify_event_ClockFromLast(model_id, timestamp, h, sig, used, last, st) ==
    IF model_id \notin DOMAIN SIM_MODEL_KEYS THEN RaiseKeyError(used, last, st)
    ELSE
    LET key == SIM_MODEL_KEYS[model_id]
        pid == <<model_id, h, sig>>
        last_t == Lookup(last, model_id)
        global_time == IF model_id \in DOMAIN last THEN last[model_id] ELSE timestamp
    IN  IF ~verify_signature(key, sig, h)
        THEN event_reject(model_id, "BAD_SIGNATURE", used, last, st)
        ELSE IF pid \in used
        THEN event_reject(model_id, "REPLAY", used, last, st)
        ELSE IF timestamp > global_time + MAX_FUTURE_DRIFT
        THEN event_reject(model_id, "TIME_FUTURE", used, last, st)
        ELSE IF \E t \in last_t : timestamp + MAX_BACKWARD_DRIFT < t
        THEN event_reject(model_id, "TIME_BACKDATED", used, last, st)
        ELSE event_accept(model_id, timestamp, h, sig, used, last, st)

verify_event(model_id, timestamp, h, sig, used, last, st) ==
    IF model_id \notin DOMAIN SIM_MODEL_KEYS THEN RaiseKeyError(used, last, st)
    ELSE
    LET key == SIM_MODEL_KEYS[model_id]
        pid == <<model_id, h, sig>>
        last_t == Lookup(last, model_id)
        global_time == timestamp
    IN  IF ~verify_signature(key, sig, h)
        THEN event_reject(model_id, "BAD_SIGNATURE", used, last, st)
        ELSE IF pid \in used
        THEN event_reject(model_id, "REPLAY", used, last, st)
        ELSE IF timestamp > global_time + MAX_FUTURE_DRIFT
        THEN event_reject(model_id, "TIME_FUTURE", used, last, st)
        ELSE IF \E t \in last_t : timestamp + MAX_BACKWARD_DRIFT < t
        THEN event_reject(model_id, "TIME_BACKDATED", used, last, st)
        ELSE event_accept(model_id, timestamp, h, sig, used, last, st)

\* the inputs explored: per identity the hashes next_hash yields for steps
\* 0..MaxStep; per hash the honest signature, the signature of the reversed
\* hash (a cheating model) and the signature cached from step 0 (the time
\* attacker's replay); one event of an identity that has no key; one event
\* whose hash is the empty string, signed by its identity's key
\* the future check of verify_event compares a timestamp with itself, so
\* the timestamps around the future drift add nothing here
SimTimes == {t \in Times : t <= MAX_BACKWARD_DRIFT + 1}
SimHashes(model_id) == {hash_event(g, model_id, g) : g \in 0..MaxStep}
SimSignaturesFor(model_id, h) ==
    {Sign(SIM_MODEL_KEYS[model_id], h),
     Sign(SIM_MODEL_KEYS[model_id], Reversed(h)),
     Sign(SIM_MODEL_KEYS[model_id], hash_event(0, model_id, 0))}
Events ==
    UNION {UNION {{MkStep(m, h, sig, t) : sig \in SimSignaturesFor(m, h), t \in SimTimes} :
                     h \in SimHashes(m)} : m \in DOMAIN SIM_MODEL_KEYS}
    \cup {MkStep("unregistered", hash_event(0, "unregistered", 0),
                 Sign("NO_KEY", hash_event(0, "unregistered", 0)), 0)}
    \cup {MkStep("honest_core", EmptyHash, Sign("HONEST_CORE_KEY", EmptyHash), 0)}

InitSim ==
    /\ script = "poci_demosim"
    /\ state = EmptyDict
    /\ used_proofs = {}
    /\ last_timestamp = EmptyDict
    /\ NoHistory /\ IdleDemo /\ IdleReplay /\ IdleClock

\* one call verify_event(global_step, model, phase, timestamp, h, sig)
VerifyEventCall(e) ==
    /\ script = "poci_demosim"
    /\ \E out \in {verify_event(e.model_id, e.timestamp, e.hash, e.signature,
                               used_proofs, last_timestamp, state)} :
           /\ used_proofs' = out.used_proofs
           /\ last_timestamp' = out.last_timestamp
           /\ state' = out.state
           /\ ret' = out.ret
           /\ reason' = out.reason
           /\ updates' = out.updates
           /\ accepted' = IF out.ret = "True"
                          THEN accepted \cup {proof_id_of(e)} ELSE accepted
    /\ call' = [op |-> "verify_event", step |-> e, global_time |-> e.timestamp]
    /\ pre' = PreOf(e.model_id, proof_id_of(e))
    /\ ncalls' = ncalls + 1
    /\ UNCHANGED <<script, demoVars, clock, controller, tally, made, threads,
                   all_proofs>>

VerifyEvent(e) ==
    /\ ncalls < MaxCalls
    /\ VerifyEventCall(e)
    /\ UNCHANGED <<highest, models_dict>>

\* events stamped beyond the future drift, explored when poci_demosim runs
\* on its own
FutureEvents ==
    {MkStep(m, hash_event(g, m, g),
            Sign(SIM_MODEL_KEYS[m], hash_event(g, m, g)), MaxTime) :
        m \in DOMAIN SIM_MODEL_KEYS, g \in 0..MaxStep}

NextSim == \E e \in Events \cup FutureEvents : VerifyEvent(e)

SpecSim == InitSim /\ [][NextSim]_vars

(***************************************************************************)
(* Both verification pipelines: a run of either script.                    *)
(***************************************************************************)
InitVerify == InitTiming \/ InitSim

NextVerify ==
    \/ \E step \in Steps, global_time \in GlobalTimes : VerifyStep(step, global_time)
    \/ \E e \in Events : VerifyEvent(e)

SpecVerify == InitVerify /\ [][NextVerify]_vars

(***************************************************************************)
(* Claims about the verification pipelines.                                *)
(***************************************************************************)
IsVerify(c) == c.op \in {"verify_step", "verify_event"}

ReplayReason ==
    IF script = "poci_demotiming" THEN "REPLAY_DETECTED" ELSE "REPLAY"

\* the trust record an identity has, or the one its first reference creates
TrustOf(st, model_id) ==
    IF model_id \in DOMAIN st THEN st[model_id]
    ELSE [weight |-> 100, theta |-> 100]

(***************************************************************************)
(* C2.  Replay.  Once verify_step or verify_event has accepted a proof     *)
(* (model_id, hash, signature), every later submission of the same triple, *)
(* whatever its timestamp and reference time, returns False with the       *)
(* replay reason, and leaves used_proofs and last_timestamp unchanged.     *)
(***************************************************************************)
C2_ReplayRejected ==
    [][(IsVerify(call') /\ proof_id_of(call'.step) \in accepted) =>
          /\ ret' = "False"
          /\ reason' = ReplayReason
          /\ used_proofs' = used_proofs
          /\ last_timestamp' = last_timestamp]_vars

\* an accepted proof of poci_demotiming submitted again with another
\* timestamp than the one it was accepted with, and rejected as a replay
C2_Witness ==
    /\ call.op = "verify_step"
    /\ proof_id_of(call.step) \in accepted
    /\ ret = "False"
    /\ reason = "REPLAY_DETECTED"
    /\ call.step.timestamp \notin pre.last_t

(***************************************************************************)
(* C3.  Timestamp bounds in verify_step.  A proof with a valid signature   *)
(* and an unused proof id is rejected as too far in the future exactly     *)
(* when timestamp > global_time + 30; otherwise it is rejected as          *)
(* backdated exactly when the identity has a last accepted timestamp and   *)
(* timestamp + 10 < that timestamp; otherwise it is accepted.              *)
(***************************************************************************)
C3_TimestampBounds ==
    [][(/\ call'.op = "verify_step"
        /\ call'.step.model_id = "honest"
        /\ call'.step.signature = <<"HONEST_KEY", call'.step.hash>>
        /\ proof_id_of(call'.step) \notin used_proofs) =>
          LET ts == call'.step.timestamp
              gt == call'.global_time
              last_t == Lookup(last_timestamp, "honest")
              future == ts > gt + 30
              back == \E t \in last_t : ts + 10 < t
          IN  /\ (ret' = "False" /\ reason' = "TIMESTAMP_TOO_FAR_IN_FUTURE") <=> future
              /\ (ret' = "False" /\ reason' = "TIMESTAMP_BACKDATED") <=> (~future /\ back)
              /\ (ret' = "True" /\ reason' = "OK") <=> (~future /\ ~back)]_vars

\* a proof exactly MAX_BACKWARD_DRIFT behind the last accepted timestamp,
\* accepted
C3_Witness ==
    /\ call.op = "verify_step"
    /\ ret = "True"
    /\ pre.last_t = {call.step.timestamp + 10}
    /\ last_timestamp["honest"] = call.step.timestamp

(***************************************************************************)
(* C5.  Rejection leaves the record untouched.  Whenever verify_step or    *)
(* verify_event returns False (bad signature, replay, future or backdated  *)
(* timestamp), used_proofs and last_timestamp are as before the call, and  *)
(* the identity's controller receives exactly one update, with             *)
(* valid = False: its weight drops by 0.10 and its theta rises by 0.30,    *)
(* clamped, and no other trust record changes.                             *)
(***************************************************************************)
C5_RejectionFrame ==
    [][(IsVerify(call') /\ ret' = "False") =>
          LET m == call'.step.model_id
              old == TrustOf(state, m)
          IN  /\ used_proofs' = used_proofs
              /\ last_timestamp' = last_timestamp
              /\ updates' = <<[model_id |-> m, valid |-> FALSE]>>
              /\ DOMAIN state' = DOMAIN state \cup {m}
              /\ state'[m] = [weight |-> Max(0, old.weight - 10),
                              theta  |-> Min(500, old.theta + 30)]
              /\ \A x \in DOMAIN state : x # m => state'[x] = state[x]]_vars

\* a backdated event of poci_demosim rejected while a proof is on record
C5_Witness ==
    /\ call.op = "verify_event"
    /\ ret = "False"
    /\ reason = "TIME_BACKDATED"
    /\ used_proofs # {}
    /\ \E t \in pre.last_t : call.step.timestamp + 10 < t /\ last_timestamp[call.step.model_id] = t

(***************************************************************************)
(* C6.  Acceptance effects.  Whenever verify_step or verify_event returns  *)
(* True, the proof id is in used_proofs afterwards and is the only one     *)
(* added, the identity's last accepted timestamp is the proof's timestamp, *)
(* the identity's controller receives exactly one update, with             *)
(* valid = True (weight up by the reward, theta down by the reward,        *)
(* clamped), and no other identity's timestamp or trust record changes.    *)
(***************************************************************************)
C6_AcceptanceEffects ==
    [][(IsVerify(call') /\ ret' = "True") =>
          LET m == call'.step.model_id
              old == TrustOf(state, m)
              rw == IF call'.op = "verify_step" THEN 5 ELSE 3
              rt == IF call'.op = "verify_step" THEN 10 ELSE 8
          IN  /\ used_proofs' = used_proofs \cup {proof_id_of(call'.step)}
              /\ DOMAIN last_timestamp' = DOMAIN last_timestamp \cup {m}
              /\ last_timestamp'[m] = call'.step.timestamp
              /\ \A x \in DOMAIN last_timestamp :
                    x # m => last_timestamp'[x] = last_timestamp[x]
              /\ updates' = <<[model_id |-> m, valid |-> TRUE]>>
              /\ DOMAIN state' = DOMAIN state \cup {m}
              /\ state'[m] = [weight |-> Min(100, old.weight + rw),
                              theta  |-> Max(50, old.theta - rt)]
              /\ \A x \in DOMAIN state : x # m => state'[x] = state[x]]_vars

\* an event of one identity accepted while another identity has a trust
\* record and a last accepted timestamp different from the event's
C6_Witness ==
    /\ call.op = "verify_event"
    /\ ret = "True"
    /\ \E x \in DOMAIN last_timestamp \cap DOMAIN state :
          /\ x # call.step.model_id
          /\ last_timestamp[x] # call.step.timestamp

(***************************************************************************)
(* C9.  Check order in verify_step.  The reason reported is that of the    *)
(* earliest failing check in the order signature, replay, future           *)
(* timestamp, backdated timestamp, and the call has the effect of that     *)
(* one check only: a single controller update.                             *)
(***************************************************************************)
C9_CheckOrder ==
    [][(call'.op = "verify_step" /\ call'.step.model_id = "honest") =>
          LET ts == call'.step.timestamp
              badsig == call'.step.signature # <<"HONEST_KEY", call'.step.hash>>
              replay == proof_id_of(call'.step) \in used_proofs
              future == ts > call'.global_time + 30
              back == \E t \in Lookup(last_timestamp, "honest") : ts + 10 < t
          IN  /\ reason' = IF badsig THEN "BAD_SIGNATURE"
                           ELSE IF replay THEN "REPLAY_DETECTED"
                           ELSE IF future THEN "TIMESTAMP_TOO_FAR_IN_FUTURE"
                           ELSE IF back THEN "TIMESTAMP_BACKDATED"
                           ELSE "OK"
              /\ ret' = IF badsig \/ replay \/ future \/ back THEN "False" ELSE "True"
              /\ Len(updates') = 1]_vars

\* a replayed proof that is also backdated, reported as a replay
C9_Witness ==
    /\ call.op = "verify_step"
    /\ reason = "REPLAY_DETECTED"
    /\ pre.seen
    /\ \E t \in pre.last_t : call.step.timestamp + 10 < t

\* the part of a per-identity dict, and of used_proofs, that is one
\* identity's own
Own(d, model_id) == [x \in DOMAIN d \cap {model_id} |-> d[x]]
OwnProofs(used, model_id) == {p \in used : p[1] = model_id}

(***************************************************************************)
(* C19.  Identity independence.  Verifying a proof of identity A changes   *)
(* no other identity's weight, theta, last accepted timestamp or used      *)
(* proof ids, and its outcome, reason and effect on A are those of the     *)
(* same call made with A's own records alone, whatever the other           *)
(* identities have submitted before.  (Step by step, this gives each       *)
(* identity, in every interleaving of two submission sequences, the        *)
(* outcomes and the final trust state of its sequence processed alone.)    *)
(***************************************************************************)
C19_IdentityIndependence ==
    [][IsVerify(call') =>
          \A m \in {call'.step.model_id} :
          \A alone \in {IF call'.op = "verify_step"
                         THEN verify_step(call'.step, call'.global_time,
                                          OwnProofs(used_proofs, m),
                                          Own(last_timestamp, m), Own(state, m))
                         ELSE verify_event(m, call'.step.timestamp, call'.step.hash,
                                           call'.step.signature,
                                           OwnProofs(used_proofs, m),
                                           Own(last_timestamp, m), Own(state, m))} :
              /\ DOMAIN state' \subseteq DOMAIN state \cup {m}
              /\ \A x \in DOMAIN state \ {m} :
                    x \in DOMAIN state' /\ state'[x] = state[x]
              /\ DOMAIN last_timestamp' \subseteq DOMAIN last_timestamp \cup {m}
              /\ \A x \in DOMAIN last_timestamp \ {m} :
                    x \in DOMAIN last_timestamp'
                    /\ last_timestamp'[x] = last_timestamp[x]
              /\ {p \in used_proofs' : p[1] # m} = {p \in used_proofs : p[1] # m}
              /\ ret' = alone.ret
              /\ reason' = alone.reason
              /\ Own(state', m) = alone.state
              /\ Own(last_timestamp', m) = alone.last_timestamp
              /\ OwnProofs(used_proofs', m) = alone.used_proofs]_vars

\* a proof of one identity rejected while that identity has a trust record
\* and another identity has a trust record, a last accepted timestamp and a
\* used proof id
C19_Witness ==
    /\ call.op = "verify_event"
    /\ ret = "False"
    /\ pre.known
    /\ \E x \in DOMAIN state \cap DOMAIN last_timestamp :
          /\ x # call.step.model_id
          /\ OwnProofs(used_proofs, x) # {}

(***************************************************************************)
(* C11.  Structural validity: a proof whose hash is empty is rejected by   *)
(* verify_step and verify_event before any other check, with reason        *)
(* MALFORMED, whatever its signature.                                      *)
(***************************************************************************)
C11_MalformedRejected ==
    (IsVerify(call) /\ call.step.hash = EmptyHash) =>
        (ret = "False" /\ reason = "MALFORMED")

(***************************************************************************)
(* C18.  The verification pipeline returns a normal accept/reject outcome  *)
(* for every submitted proof, including a proof naming a model_id that has *)
(* no registered key: no submission makes verify_step or verify_event      *)
(* raise.                                                                  *)
(***************************************************************************)
C18_NeverRaises ==
    IsVerify(call) => ret \in {"True", "False"}

(***************************************************************************)
(* poci_demotiming.py, a long run: one identity submits up to MaxLongCalls *)
(* proofs, each a forged one, a valid one of step 0 or step 1, or one      *)
(* stamped beyond the future drift, all at reference time 0.               *)
(***************************************************************************)
LongSteps ==
    {MkStep("honest", hash_step(0), Sign("ATTACKER_KEY", hash_step(0)), 0),
     MkStep("honest", hash_step(0), Sign("HONEST_KEY", hash_step(0)), 0),
     MkStep("honest", hash_step(1), Sign("HONEST_KEY", hash_step(1)), 0),
     MkStep("honest", hash_step(1), Sign("HONEST_KEY", hash_step(1)),
            MAX_FUTURE_DRIFT + 1)}

LongVerifyStep(step) ==
    /\ ncalls < MaxLongCalls
    /\ VerifyStepCall(step, 0)
    /\ UNCHANGED <<highest, models_dict>>

NextLong == \E step \in LongSteps : LongVerifyStep(step)

SpecLong == InitTiming /\ [][NextLong]_vars

(***************************************************************************)
(* C21.  No lockout.  The outcome of verify_step (return value, reason,    *)
(* used_proofs and last_timestamp afterwards) is that of the same call     *)
(* made with an empty controller: it depends on the proof, the reference   *)
(* time, used_proofs and last_timestamp only, never on the identity's      *)
(* weight or theta.  Whatever was rejected before, a proof with a valid    *)
(* signature, an unused proof id and a timestamp within both bounds is     *)
(* accepted.                                                               *)
(***************************************************************************)
C21_NoLockout ==
    [][call'.op = "verify_step" =>
          \A fresh \in {verify_step(call'.step, call'.global_time,
                                    used_proofs, last_timestamp, EmptyDict)} :
              /\ ret' = fresh.ret
              /\ reason' = fresh.reason
              /\ used_proofs' = fresh.used_proofs
              /\ last_timestamp' = fresh.last_timestamp
              /\ (/\ step_sig_valid(call'.step)
                  /\ ~step_is_replay(call'.step, used_proofs)
                  /\ ~step_in_future(call'.step, call'.global_time)
                  /\ ~step_backdated(call'.step, last_timestamp))
                 => ret' = "True"]_vars

\* a proof accepted from an identity whose weight was 0.0 and whose theta was
\* 5.0 (the accepted proof brought them to 0.05 and 4.9), after proofs of the
\* identity were rejected
C21_Witness ==
    /\ call.op = "verify_step"
    /\ ret = "True"
    /\ pre.known
    /\ state["honest"] = [weight |-> T_REWARD_W, theta |-> 500 - T_REWARD_THETA]

(***************************************************************************)
(* crypto_utils.py, lineage.py, models.py, run_demo.py: the real-crypto    *)
(* pipeline                                                                *)
(***************************************************************************)
\* the sentinel "GENESIS", shaped like a digest
GENESIS == <<"GENESIS">>

\* the digest, named by the arguments.  (The bytes hashed are those of
\* payload_bytes below; for the arguments make_event passes in the scripts,
\* two fixed model ids and a prev_hash that is "GENESIS" or 64 hex digits,
\* different arguments give different bytes.)
hash_payload(model_id, idx, prev_hash, payload, ts) ==
    <<"blake2b", model_id, idx, prev_hash, payload, ts>>

\* Ed25519: sk.sign(message).signature, and vk.verify under the verify key
\* of the same pair (a pair is named by its owner)
sign_event(sk, message) == <<"ed25519", sk, message>>

\* crypto_sign_BYTES, the length of an Ed25519 signature
SIGNATURE_BYTES == 64

\* a byte string of n bytes that no key has signed
Junk(n) == <<"bytes", n>>

\* len(signature)
sig_len(signature) ==
    IF signature[1] = "ed25519" THEN SIGNATURE_BYTES ELSE signature[2]

\* nacl's VerifyKey.verify(message, signature): the ways it can end.  For a
\* signature that is not 64 bytes long it raises nacl.exceptions.ValueError
\* where the installed PyNaCl checks the length, and BadSignatureError
\* where it does not
VerifyKey_verify(vk, message, signature) ==
    IF sig_len(signature) # SIGNATURE_BYTES
    THEN {"ValueError", "BadSignatureError"}
    ELSE IF signature = <<"ed25519", vk, message>>
         THEN {"ok"}
         ELSE {"BadSignatureError"}

\* verify_signature of crypto_utils.py: the values it can return ("True",
\* "False") and the exceptions it lets through; it catches
\* BadSignatureError only
crypto_verify_signature(vk, message, signature) ==
    {IF o = "ok" THEN "True" ELSE IF o = "BadSignatureError" THEN "False" ELSE o :
        o \in VerifyKey_verify(vk, message, signature)}

\* f"{model_id}|{index}|{prev_hash}|{payload_hash}|{ts}".encode()
msg_bytes_of(model_id, idx, prev_hash, payload_hash, ts) ==
    <<"msg", model_id, idx, prev_hash, payload_hash, ts>>

LineageStore_last_hash(st, model_id) ==
    IF model_id \notin DOMAIN st \/ st[model_id] = <<>>
    THEN GENESIS
    ELSE st[model_id][Len(st[model_id])].event_hash

\* an append that starts the chain over
LineageStore_append_Replace(st, event) == Put(st, event.model_id, <<event>>)

\* events_by_model.setdefault(event.model_id, []).append(event)
LineageStore_append(st, event) ==
    Put(st, event.model_id,
        IF event.model_id \in DOMAIN st
        THEN Append(st[event.model_id], event)
        ELSE <<event>>)

LineageStore_get_chain(st, model_id) ==
    IF model_id \in DOMAIN st THEN st[model_id] ELSE <<>>

\* BaseModel.make_event: the Event built (self.index += 1 is in the action)
make_event(model_id, idx, st, payload, cheat, ts) ==
    LET prev == LineageStore_last_hash(st, model_id)
        payload_h == hash_payload(model_id, idx, prev, payload, ts)
        msg_bytes == msg_bytes_of(model_id, idx, prev, payload_h, ts)
        msg_to_sign == IF cheat THEN Reversed(msg_bytes) ELSE msg_bytes
    IN  [model_id |-> model_id,
         index |-> idx,
         ts |-> ts,
         payload_hash |-> payload_h,
         prev_hash |-> prev,
         event_hash |-> hash_payload(model_id, idx, prev, payload, ts),
         signature |-> sign_event(model_id, msg_to_sign)]

\* run_demo.verify_event: ok, the value returned (event.signature comes from
\* sign_event and is 64 bytes long, so verify_signature returns)
demo_verify_event(event, vk) ==
    "True" \in crypto_verify_signature(
        vk,
        msg_bytes_of(event.model_id, event.index, event.prev_hash,
                     event.payload_hash, event.ts),
        event.signature)

\* models = [honest, attacker]
DemoModels == <<"honest_core", "attacker">>

PHASE1_STEPS == 5
PHASE2_STEPS == 10

\* the cheat flag and the payload of the event __main__ makes at pc
CheatAt(p) == p.phase = 2 /\ p.who = 2 /\ p.step % 2 = 1
PayloadAt(p) ==
    IF p.phase = 2 /\ p.who = 2 THEN "evil_ai_compute" ELSE "some_ai_compute"

\* where __main__ goes after verify_event
AfterVerify(p) ==
    IF p.who = 1 THEN [p EXCEPT !.who = 2, !.stage = "make_event"]
    ELSE IF p.phase = 1 /\ p.step + 1 < PHASE1_STEPS
         THEN [phase |-> 1, step |-> p.step + 1, who |-> 1, stage |-> "make_event"]
    ELSE IF p.phase = 1
         THEN [phase |-> 2, step |-> 0, who |-> 1, stage |-> "make_event"]
    ELSE IF p.step + 1 < PHASE2_STEPS
         THEN [phase |-> 2, step |-> p.step + 1, who |-> 1, stage |-> "make_event"]
    ELSE [phase |-> 3, step |-> 0, who |-> 1, stage |-> "done"]

InitRunDemo ==
    /\ script = "run_demo"
    /\ state = EmptyDict
    /\ store = EmptyDict
    /\ index = [m \in {"honest_core", "attacker"} |-> 0]
    /\ pc = [phase |-> 1, step |-> 0, who |-> 1, stage |-> "make_event"]
    /\ ev = None
    /\ NoHistory /\ IdleVerify /\ IdleReplay /\ IdleClock

\* time passes
Tick ==
    /\ script \in {"run_demo", "poci_demoreplay", "library"}
    /\ clock < MaxClock
    /\ clock' = clock + 1
    /\ UNCHANGED <<script, state, verifyVars, demoVars, ghostVars, controller, auxVars>>

\* ev = m.make_event(store, payload=..., cheat=...)
DemoMakeEvent ==
    /\ script = "run_demo"
    /\ pc.stage = "make_event"
    /\ LET m == DemoModels[pc.who]
       IN  /\ ev' = make_event(m, index[m], store, PayloadAt(pc), CheatAt(pc), clock)
           /\ index' = [index EXCEPT ![m] = @ + 1]
    /\ pc' = [pc EXCEPT !.stage = "append"]
    /\ UNCHANGED <<script, state, verifyVars, store, ghostVars, clock, controller, auxVars>>

\* store.append(ev)
DemoAppend ==
    /\ script = "run_demo"
    /\ pc.stage = "append"
    /\ store' = LineageStore_append(store, ev)
    /\ pc' = [pc EXCEPT !.stage = "verify_event"]
    /\ UNCHANGED <<script, state, verifyVars, index, ev, ghostVars, clock, controller, auxVars>>

\* verify_event(ev, m.verify_key, ctrl, phase)
DemoVerifyEvent ==
    /\ script = "run_demo"
    /\ pc.stage = "verify_event"
    /\ \E ok \in {demo_verify_event(ev, DemoModels[pc.who])} :
           /\ state' = Controller_update(state, ev.model_id, ok)
           /\ ret' = IF ok THEN "True" ELSE "False"
           /\ reason' = IF ok THEN "GOOD" ELSE "BAD"
           /\ updates' = <<[model_id |-> ev.model_id, valid |-> ok]>>
           /\ accepted' = IF ok THEN accepted \cup {ev} ELSE accepted
    /\ call' = [op |-> "run_demo.verify_event", event |-> ev]
    /\ pre' = [NoPre EXCEPT !.known = ev.model_id \in DOMAIN state]
    /\ ncalls' = ncalls + 1
    /\ pc' = AfterVerify(pc)
    /\ UNCHANGED <<script, verifyVars, store, index, ev, clock, controller, auxVars>>

NextRunDemo == Tick \/ DemoMakeEvent \/ DemoAppend \/ DemoVerifyEvent

SpecRunDemo == InitRunDemo /\ [][NextRunDemo]_vars

(***************************************************************************)
(* C4.  Lineage continuity: an event whose prev_hash differs from the      *)
(* identity's current last accepted hash, LineageStore.last_hash(model_id) *)
(* at verification time, is rejected by verification even when its         *)
(* signature over its own fields is valid.  (verify_event leaves the store *)
(* alone, so the last hash at verification time is the one afterwards.)    *)
(***************************************************************************)
C4_LineageContinuity ==
    (/\ call.op = "run_demo.verify_event"
     /\ call.event.prev_hash # LineageStore_last_hash(store, call.event.model_id))
        => ret = "False"

(***************************************************************************)
(* C7.  In the real-crypto pipeline an identity's last hash in the Lineage *)
(* Store is that of an accepted proof, and an event whose verification     *)
(* fails is never in the store's chain.                                    *)
(***************************************************************************)
C7_StoreHoldsNoRejected ==
    (call.op = "run_demo.verify_event" /\ ret = "False") =>
        /\ \A i \in DOMAIN LineageStore_get_chain(store, call.event.model_id) :
              LineageStore_get_chain(store, call.event.model_id)[i] # call.event
        /\ LineageStore_last_hash(store, call.event.model_id)
              \in {GENESIS} \cup {a.event_hash : a \in accepted}

\* the events of an identity that run_demo.verify_event has accepted
AcceptedOf(model_id) == {a \in accepted : a.model_id = model_id}

\* the identity has made an event that __main__ has not verified yet
Pending(model_id) ==
    /\ pc.stage \in {"append", "verify_event"}
    /\ DemoModels[pc.who] = model_id

(***************************************************************************)
(* C12.  Event index: the accepted events of one identity carry the        *)
(* consecutive indices 0, 1, 2, ...; the identity's index advances by      *)
(* exactly 1 per accepted event and does not advance when an event it      *)
(* produced is rejected (so, once its events are verified, its index is    *)
(* the number of its accepted events).                                     *)
(***************************************************************************)
C12_ConsecutiveIndices ==
    script = "run_demo" =>
        \A m \in DOMAIN index :
            LET n == Cardinality(AcceptedOf(m))
            IN  /\ {a.index : a \in AcceptedOf(m)} = 0..(n - 1)
                /\ ~Pending(m) => index[m] = n

(***************************************************************************)
(* C13.  Honest scenario: the honest identity of run_demo submits valid    *)
(* proofs in sequence from a fresh record.  All of them are accepted, its  *)
(* weight stays 1.0, and its theta goes 0.92, 0.84, 0.76, 0.68, 0.60,      *)
(* 0.52, 0.5 over the first seven proofs, strictly decreasing, and stays   *)
(* 0.5 from then on (the tenth proof and after).                           *)
(***************************************************************************)
C13_HonestScenario ==
    script = "run_demo" =>
        LET k == Cardinality(AcceptedOf("honest_core"))
        IN  /\ k = index["honest_core"] - (IF Pending("honest_core") THEN 1 ELSE 0)
            /\ k >= 1 =>
                  /\ state["honest_core"].weight = 100
                  /\ state["honest_core"].theta =
                        IF k <= 10
                        THEN <<92, 84, 76, 68, 60, 52, 50, 50, 50, 50>>[k]
                        ELSE 50

\* the tenth honest proof has just been accepted
C13_Witness ==
    /\ script = "run_demo"
    /\ call.op = "run_demo.verify_event"
    /\ call.event.model_id = "honest_core"
    /\ ret = "True"
    /\ Cardinality(AcceptedOf("honest_core")) = 10
    /\ state["honest_core"] = [weight |-> 100, theta |-> 50]

(***************************************************************************)
(* lineage.py, models.py as a library: make_event and                      *)
(* LineageStore.append / last_hash / get_chain called in any order.        *)
(***************************************************************************)
\* the models that make events, and an identity that never makes one
LibModels == {"honest_core", "attacker"}
LibIds == LibModels \cup {"nobody"}

InitLibrary ==
    /\ script = "library"
    /\ state = EmptyDict
    /\ store = EmptyDict
    /\ index = [m \in LibModels |-> 0]
    /\ pc = None
    /\ ev = None
    /\ NoHistory /\ IdleVerify /\ IdleReplay /\ IdleClock

LibStored == LET RECURSIVE Sum(_)
                 Sum(S) == IF S = {} THEN 0
                           ELSE LET x == CHOOSE y \in S : TRUE
                                IN  Len(store[x]) + Sum(S \ {x})
             IN  Sum(DOMAIN store)

\* model.make_event(store, payload, cheat)
LibMakeEvent(model_id, payload, cheat) ==
    /\ script = "library"
    /\ Cardinality(made) < MaxMade
    /\ \E event \in {make_event(model_id, index[model_id], store, payload, cheat, clock)} :
           /\ made' = made \cup {event}
           /\ ret' = event
    /\ index' = [index EXCEPT ![model_id] = @ + 1]
    /\ call' = [op |-> "make_event", model_id |-> model_id, cheat |-> cheat]
    /\ pre' = NoPre
    /\ ncalls' = ncalls + 1
    /\ UNCHANGED <<script, state, verifyVars, store, pc, ev, reason, updates,
                   accepted, clock, controller, tally, histVars>>

\* store.append(event)
LibAppend(event) ==
    /\ script = "library"
    /\ LibStored < MaxAppends
    /\ store' = LineageStore_append(store, event)
    /\ call' = [op |-> "append", event |-> event]
    /\ ret' = None
    /\ pre' = [NoPre EXCEPT !.known = event.model_id \in DOMAIN store]
    /\ ncalls' = ncalls + 1
    /\ UNCHANGED <<script, state, verifyVars, index, pc, ev, reason, updates,
                   accepted, clock, controller, auxVars>>

\* store.last_hash(model_id)
LibLastHash(model_id) ==
    /\ script = "library"
    /\ call' = [op |-> "last_hash", model_id |-> model_id]
    /\ ret' = LineageStore_last_hash(store, model_id)
    /\ pre' = [NoPre EXCEPT !.known = model_id \in DOMAIN store]
    /\ ncalls' = ncalls
    /\ UNCHANGED <<script, state, verifyVars, demoVars, reason, updates,
                   accepted, clock, controller, auxVars>>

\* store.get_chain(model_id)
LibGetChain(model_id) ==
    /\ script = "library"
    /\ call' = [op |-> "get_chain", model_id |-> model_id]
    /\ ret' = LineageStore_get_chain(store, model_id)
    /\ pre' = [NoPre EXCEPT !.known = model_id \in DOMAIN store]
    /\ ncalls' = ncalls
    /\ UNCHANGED <<script, state, verifyVars, demoVars, reason, updates,
                   accepted, clock, controller, auxVars>>

NextLibrary ==
    \/ Tick
    \/ \E model_id \in LibModels, payload \in {"some_ai_compute"}, cheat \in BOOLEAN :
          LibMakeEvent(model_id, payload, cheat)
    \/ \E event \in made : LibAppend(event)
    \/ \E model_id \in LibIds : LibLastHash(model_id)
    \/ \E model_id \in LibIds : LibGetChain(model_id)

SpecLibrary == InitLibrary /\ [][NextLibrary]_vars

(***************************************************************************)
(* crypto_utils.py: verify_signature applied to a verify key, a message    *)
(* and a signature byte string.                                            *)
(***************************************************************************)
\* the messages of the first events of the two models, and per message the
\* signatures handed in: the message signed by either key, the reversed
\* message signed by either key, and byte strings of 0, 63, 64 and 65 bytes
\* that no key has signed
CryptoMessages ==
    {msg_bytes_of(m, i, GENESIS, hash_payload(m, i, GENESIS, "some_ai_compute", 0), 0) :
        m \in LibModels, i \in 0..1}
CryptoSignatures(message) ==
    {sign_event(k, message) : k \in LibModels}
    \cup {sign_event(k, Reversed(message)) : k \in LibModels}
    \cup {Junk(n) : n \in {0, SIGNATURE_BYTES - 1, SIGNATURE_BYTES, SIGNATURE_BYTES + 1}}

\* the arguments of the call to come
InitCrypto ==
    /\ script = "crypto_utils"
    /\ state = EmptyDict
    /\ \E vk \in LibModels, message \in CryptoMessages :
          \E signature \in CryptoSignatures(message) :
              call = [op |-> "arguments", vk |-> vk, message |-> message,
                      signature |-> signature]
    /\ pre = NoPre /\ ret = None /\ reason = "" /\ updates = <<>>
    /\ accepted = {} /\ ncalls = 0 /\ tally = EmptyDict /\ made = {}
    /\ highest = EmptyDict /\ threads = EmptyDict /\ all_proofs = <<>>
    /\ models_dict = EmptyDict
    /\ IdleVerify /\ IdleDemo /\ IdleReplay /\ IdleClock

\* verify_signature(vk, message, signature)
CryptoVerifySignature ==
    /\ script = "crypto_utils"
    /\ call.op = "arguments"
    /\ call' = [call EXCEPT !.op = "verify_signature"]
    /\ ret' \in crypto_verify_signature(call.vk, call.message, call.signature)
    /\ ncalls' = ncalls + 1
    /\ UNCHANGED <<script, state, verifyVars, demoVars, pre, reason, updates,
                   accepted, clock, controller, auxVars>>

NextCrypto == CryptoVerifySignature

SpecCrypto == InitCrypto /\ [][NextCrypto]_vars

(***************************************************************************)
(* C17.  verify_signature returns False, and never raises, for every       *)
(* signature byte string of any length (empty, shorter than 64 bytes,      *)
(* longer than 64 bytes) that is not a valid signature of the message.     *)
(***************************************************************************)
C17_NeverRaises ==
    (/\ call.op = "verify_signature"
     /\ call.signature # <<"ed25519", call.vk, call.message>>) =>
        ret = "False"

(***************************************************************************)
(* C20.  LineageStore is append-only.  last_hash returns "GENESIS" for an  *)
(* identity with no stored event and otherwise the event_hash of the event *)
(* appended last for it; append puts the event at the end of its           *)
(* identity's chain, leaves every event stored before at its position and  *)
(* every other chain as it was; last_hash and get_chain change nothing and *)
(* create no entry, also for an unseen identity.  (A step that leaves the  *)
(* clock alone is a call.)                                                 *)
(***************************************************************************)
C20_AppendOnly ==
    [][clock' = clock =>
       /\ call'.op = "append" =>
            LET m == call'.event.model_id
                n == IF m \in DOMAIN store THEN Len(store[m]) ELSE 0
            IN  /\ DOMAIN store' = DOMAIN store \cup {m}
                /\ Len(store'[m]) = n + 1
                /\ store'[m][n + 1] = call'.event
                /\ \A i \in 1..n : store'[m][i] = store[m][i]
                /\ \A x \in DOMAIN store : x # m => store'[x] = store[x]
       /\ call'.op \in {"last_hash", "get_chain"} =>
            LET m == call'.model_id
                n == IF m \in DOMAIN store THEN Len(store[m]) ELSE 0
            IN  /\ store' = store
                /\ call'.op = "last_hash" =>
                      ret' = IF n = 0 THEN <<"GENESIS">> ELSE store[m][n].event_hash
                /\ call'.op = "get_chain" =>
                      ret' = IF n = 0 THEN <<>> ELSE store[m]
       /\ call'.op # "append" => store' = store]_vars

\* an event appended to a chain that held an event already
C20_Witness ==
    /\ script = "library"
    /\ call.op = "append"
    /\ pre.known
    /\ Len(store[call.event.model_id]) >= 2
    /\ store[call.event.model_id][Len(store[call.event.model_id])] = call.event

(***************************************************************************)
(* poci_demoreplay.py: the replay detector                                 *)
(***************************************************************************)
R_REWARD_S == 10        \* s + 0.10
R_REWARD_W == 5         \* w + 0.05
R_REWARD_THETA == 10    \* theta - 0.10
R_PENALTY_S == 20       \* s - 0.20
R_PENALTY_W == 15       \* w - 0.15
R_PENALTY_THETA == 50   \* theta + 0.50
R_THETA_MIN == 100      \* max(1.0, ...)
R_THETA_MAX == 1000     \* min(10.0, ...)
MAX_DRIFT_SEC == 30     \* max_drift_sec=30

\* Controller.__init__
ReplayController_init ==
    [theta |-> 100, w |-> 100, s |-> 0, proof_cache |-> {}]

\* Controller.update(sig_good)
ReplayController_update(c, sig_good) ==
    IF sig_good
    THEN [c EXCEPT !.s = Min(100, c.s + R_REWARD_S),
                   !.w = Min(100, c.w + R_REWARD_W),
                   !.theta = Max(R_THETA_MIN, c.theta - R_REWARD_THETA)]
    ELSE [c EXCEPT !.s = Max(0, c.s - R_PENALTY_S),
                   !.w = Max(0, c.w - R_PENALTY_W),
                   !.theta = Min(R_THETA_MAX, c.theta + R_PENALTY_THETA)]

\* sha256 of the event's JSON with sorted keys
generate_proof(event) ==
    [event |-> event,
     proof_hash |-> <<"sha256", event.payload, event.ts>>,
     ts |-> event.ts]

\* abs((now - event_ts).total_seconds()) <= max_drift_sec
check_timestamp(event_ts, now) ==
    (IF now >= event_ts THEN now - event_ts ELSE event_ts - now) <= MAX_DRIFT_SEC

\* verify_proof: (sig_good, replay) and the controller afterwards
verify_proof(c, proof, now) ==
    LET ts_good == check_timestamp(proof.ts, now)
        replay == proof.proof_hash \in c.proof_cache
        c1 == [c EXCEPT !.proof_cache = @ \cup {proof.proof_hash}]
    IN  [sig_good |-> ts_good /\ ~replay, replay |-> replay, controller |-> c1]

\* the proofs explored: the script's payload, stamped on the time grid
ReplayProofs ==
    {generate_proof([ts |-> t, payload |-> "compute_step"]) : t \in Times}

InitReplay ==
    /\ script = "poci_demoreplay"
    /\ controller = ReplayController_init
    /\ clock = 0
    /\ state = EmptyDict
    /\ NoHistory /\ IdleVerify /\ IdleDemo

\* one turn of the submission loop: verify_proof, then controller.update
Submit(p) ==
    /\ script = "poci_demoreplay"
    /\ ncalls < MaxCalls
    /\ \E out \in {verify_proof(controller, p, clock)} :
           /\ controller' = ReplayController_update(out.controller, out.sig_good)
           /\ ret' = <<out.sig_good, out.replay>>
           /\ reason' = IF out.replay THEN "REPLAY" ELSE "NO_REPLAY"
           /\ updates' = <<[valid |-> out.sig_good]>>
           /\ accepted' = IF out.sig_good
                          THEN accepted \cup {p.proof_hash} ELSE accepted
    /\ call' = [op |-> "verify_proof", proof |-> p, now |-> clock]
    /\ pre' = [NoPre EXCEPT !.seen = p.proof_hash \in controller.proof_cache]
    /\ ncalls' = ncalls + 1
    /\ UNCHANGED <<script, state, verifyVars, demoVars, clock, auxVars>>

NextReplay == Tick \/ \E p \in ReplayProofs : Submit(p)

SpecReplay == InitReplay /\ [][NextReplay]_vars

(***************************************************************************)
(* C8.  In the replay detector of poci_demoreplay a proof hash enters      *)
(* proof_cache only when that proof is accepted: a proof rejected for      *)
(* timestamp drift leaves proof_cache unchanged, so a later submission of  *)
(* it is not reported as a replay.                                         *)
(***************************************************************************)
C8_CacheOnlyOnAccept ==
    /\ script = "poci_demoreplay" => controller.proof_cache \subseteq accepted
    /\ (call.op = "verify_proof" /\ call.proof.proof_hash \notin accepted
           /\ ret[1] = FALSE) => reason = "NO_REPLAY"

(***************************************************************************)
(* poci_demo.py, poci_demov3.py: the consistency scorer.  __main__ appends *)
(* proofs to all_proofs and scores the list for an identity.               *)
(***************************************************************************)
\* a character string, as the tuple of its characters
KASPA_TX == <<"k", "a", "s", "p", "a", "_", "t", "x", "_">>

\* s.startswith(prefix)
startswith(s, prefix) ==
    /\ Len(s) >= Len(prefix)
    /\ SubSeq(s, 1, Len(prefix)) = prefix

\* mock_anchor_to_kaspa(h): "kaspa_tx_" + h[:12], the digest cut to one
\* character
mock_anchor_to_kaspa(h) == KASPA_TX \o <<"h">>

\* a score valid / len(relevant), kept as the fraction
Fraction(n, d) == [num |-> n, den |-> d]

\* 1.0
One == Fraction(1, 1)

\* the toy validity check: p.hash and p.anchor_ref.startswith("kaspa_tx_")
proof_valid(p) == p.hash # EmptyHash /\ startswith(p.anchor_ref, KASPA_TX)

\* [p for p in proofs if p.model_id == model_id]
RECURSIVE relevant_of(_, _)
relevant_of(proofs, model_id) ==
    IF proofs = <<>> THEN <<>>
    ELSE (IF Head(proofs).model_id = model_id THEN <<Head(proofs)>> ELSE <<>>)
         \o relevant_of(Tail(proofs), model_id)

\* the loop "for p in relevant: if ...: valid += 1"
RECURSIVE count_valid(_)
count_valid(relevant) ==
    IF relevant = <<>> THEN 0
    ELSE (IF proof_valid(Head(relevant)) THEN 1 ELSE 0) + count_valid(Tail(relevant))

\* a scorer that divides by the length of the whole list
compute_consistency_score_WholeList(proofs, model_id) ==
    LET relevant == relevant_of(proofs, model_id)
    IN  IF relevant = <<>> THEN One
        ELSE Fraction(count_valid(relevant), Len(proofs))

compute_consistency_score(proofs, model_id) ==
    LET relevant == relevant_of(proofs, model_id)
    IN  IF relevant = <<>> THEN One
        ELSE Fraction(count_valid(relevant), Len(relevant))

\* the proofs explored: of two identities, with an empty or a non-empty
\* hash, and an anchor_ref that is a mock Kaspa transaction id, the prefix
\* less its last character, "INVALID" or the empty string
ScoreIds == {"model_pubkey_1", "model_pubkey_2"}
AnchorRefs ==
    {mock_anchor_to_kaspa(<<"sha256", "event">>),
     SubSeq(KASPA_TX, 1, Len(KASPA_TX) - 1),
     <<"I", "N", "V", "A", "L", "I", "D">>,
     <<>>}
ScoreProofs ==
    [model_id : ScoreIds, hash : {EmptyHash, <<"sha256", "event">>},
     anchor_ref : AnchorRefs]

InitScore ==
    /\ script = "poci_demo"
    /\ state = [m \in ScoreIds |-> [theta |-> 0, w |-> 100]]
    /\ NoHistory /\ IdleVerify /\ IdleDemo /\ IdleReplay /\ IdleClock

\* all_proofs.append(p)
AppendProof(p) ==
    /\ script = "poci_demo"
    /\ Len(all_proofs) < MaxList
    /\ all_proofs' = Append(all_proofs, p)
    /\ call' = [op |-> "append", proof |-> p]
    /\ ret' = None
    /\ ncalls' = ncalls + 1
    /\ UNCHANGED <<script, state, verifyVars, demoVars, pre, reason, updates,
                   accepted, clock, controller, tally, made, highest, threads,
                   models_dict>>

\* compute_consistency_score(all_proofs, model_id)
Score(model_id) ==
    /\ script = "poci_demo"
    /\ call' = [op |-> "compute_consistency_score", model_id |-> model_id]
    /\ ret' = compute_consistency_score(all_proofs, model_id)
    /\ ncalls' = ncalls
    /\ UNCHANGED <<script, state, verifyVars, demoVars, pre, reason, updates,
                   accepted, clock, controller, auxVars>>

NextScore ==
    \/ \E p \in ScoreProofs : AppendProof(p)
    \/ \E model_id \in ScoreIds : Score(model_id)

SpecScore == InitScore /\ [][NextScore]_vars

\* the positions of an identity's proofs in a list, and of those that pass
\* the validity check
OwnAt(proofs, model_id) ==
    {i \in 1..Len(proofs) : proofs[i].model_id = model_id}
GoodAt(proofs, model_id) ==
    {i \in OwnAt(proofs, model_id) :
        /\ proofs[i].hash # EmptyHash
        /\ Len(proofs[i].anchor_ref) >= 9
        /\ \A k \in 1..9 : proofs[i].anchor_ref[k] = KASPA_TX[k]}

(***************************************************************************)
(* C22.  compute_consistency_score(proofs, model_id) changes neither the   *)
(* proof list nor any trust state.  It returns 1.0 when the identity has   *)
(* no proofs in the list, and otherwise the number of the identity's       *)
(* proofs with a non-empty hash and an anchor_ref starting with            *)
(* "kaspa_tx_", divided by the number of the identity's proofs: a value in *)
(* [0, 1], the same as for the list without the other identities' proofs.  *)
(***************************************************************************)
C22_ConsistencyScore ==
    [][call'.op = "compute_consistency_score" =>
          \A m \in {call'.model_id} :
              /\ all_proofs' = all_proofs
              /\ state' = state
              /\ OwnAt(all_proofs, m) = {} => ret' = One
              /\ OwnAt(all_proofs, m) # {} =>
                    /\ ret'.num = Cardinality(GoodAt(all_proofs, m))
                    /\ ret'.den = Cardinality(OwnAt(all_proofs, m))
              /\ 0 <= ret'.num /\ ret'.num <= ret'.den /\ ret'.den > 0
              /\ ret' = compute_consistency_score(
                            SelectSeq(all_proofs, LAMBDA p : p.model_id = m), m)]_vars

\* a score of 1/2 for an identity with one passing and one failing proof, in
\* a list that also holds a proof of another identity
C22_Witness ==
    /\ call.op = "compute_consistency_score"
    /\ ret = Fraction(1, 2)
    /\ Len(all_proofs) = 3
    /\ \E i \in 1..3 : all_proofs[i].model_id # call.model_id

(***************************************************************************)
(* poci_demotiming.py, verify_step entered by several threads: every check *)
(* and every assignment of verify_step is a step of its own, and the steps *)
(* of the threads interleave freely (the function takes no lock).          *)
(* threads[t] holds thread t's step, where it stands in verify_step and,   *)
(* once it has returned, what it returned.  controller.update is taken as  *)
(* one step.                                                               *)
(***************************************************************************)
Threads == 1..MaxThreads

\* the proofs the threads submit, all at reference time 0: a valid proof of
\* step 0, the same hash with a forged signature, and a valid proof of step
\* 1 stamped 11 and stamped beyond the future drift
ThreadSteps ==
    {MkStep("honest", hash_step(0), Sign("HONEST_KEY", hash_step(0)), 0),
     MkStep("honest", hash_step(0), Sign("ATTACKER_KEY", hash_step(0)), 0),
     MkStep("honest", hash_step(1), Sign("HONEST_KEY", hash_step(1)),
            MAX_BACKWARD_DRIFT + 1),
     MkStep("honest", hash_step(1), Sign("HONEST_KEY", hash_step(1)),
            MAX_FUTURE_DRIFT + 1)}

ThreadFrame ==
    UNCHANGED <<script, demoVars, ghostVars, clock, controller, tally, made,
                highest, all_proofs, models_dict>>

\* thread t moves on to pc `to'
Goto(t, to) == threads' = [threads EXCEPT ![t].pc = to]

\* thread t leaves its check for the failing branch
Fail(t, why) == threads' = [threads EXCEPT ![t].pc = "fail", ![t].reason = why]

\* a thread calls verify_step(step, 0)
ThreadCall(t, step) ==
    /\ script = "poci_demotiming"
    /\ t \notin DOMAIN threads
    /\ threads' = Put(threads, t, [pc |-> "signature", step |-> step,
                                   ret |-> None, reason |-> ""])
    /\ UNCHANGED <<state, verifyVars>>
    /\ ThreadFrame

\* 1) Signature check
ThreadSignature(t) ==
    /\ t \in DOMAIN threads /\ threads[t].pc = "signature"
    /\ IF step_sig_valid(threads[t].step)
       THEN Goto(t, "replay") ELSE Fail(t, "BAD_SIGNATURE")
    /\ UNCHANGED <<state, verifyVars>>
    /\ ThreadFrame

\* 2) Replay check: if proof_id in used_proofs
ThreadReplay(t) ==
    /\ t \in DOMAIN threads /\ threads[t].pc = "replay"
    /\ IF step_is_replay(threads[t].step, used_proofs)
       THEN Fail(t, "REPLAY_DETECTED") ELSE Goto(t, "future")
    /\ UNCHANGED <<state, verifyVars>>
    /\ ThreadFrame

\* 3) Future timestamp check
ThreadFuture(t) ==
    /\ t \in DOMAIN threads /\ threads[t].pc = "future"
    /\ IF step_in_future(threads[t].step, 0)
       THEN Fail(t, "TIMESTAMP_TOO_FAR_IN_FUTURE") ELSE Goto(t, "backward")
    /\ UNCHANGED <<state, verifyVars>>
    /\ ThreadFrame

\* 4) Backward timestamp / monotonicity check
ThreadBackward(t) ==
    /\ t \in DOMAIN threads /\ threads[t].pc = "backward"
    /\ IF step_backdated(threads[t].step, last_timestamp)
       THEN Fail(t, "TIMESTAMP_BACKDATED") ELSE Goto(t, "add")
    /\ UNCHANGED <<state, verifyVars>>
    /\ ThreadFrame

\* used_proofs.add(proof_id)
ThreadAdd(t) ==
    /\ t \in DOMAIN threads /\ threads[t].pc = "add"
    /\ used_proofs' = used_proofs \cup {proof_id_of(threads[t].step)}
    /\ Goto(t, "last_timestamp")
    /\ UNCHANGED <<state, last_timestamp>>
    /\ ThreadFrame

\* last_timestamp[model_id] = step.timestamp
ThreadLastTimestamp(t) ==
    /\ t \in DOMAIN threads /\ threads[t].pc = "last_timestamp"
    /\ last_timestamp' = Put(last_timestamp, threads[t].step.model_id,
                             threads[t].step.timestamp)
    /\ Goto(t, "accept")
    /\ UNCHANGED <<state, used_proofs>>
    /\ ThreadFrame

\* controller.update(model_id, True); print; return True
ThreadAccept(t) ==
    /\ t \in DOMAIN threads /\ threads[t].pc = "accept"
    /\ state' = PerModelController_update(state, threads[t].step.model_id, TRUE)
    /\ threads' = [threads EXCEPT ![t].pc = "returned", ![t].ret = "True",
                                  ![t].reason = "OK"]
    /\ UNCHANGED verifyVars
    /\ ThreadFrame

\* controller.update(model_id, False); print; return False
ThreadReject(t) ==
    /\ t \in DOMAIN threads /\ threads[t].pc = "fail"
    /\ state' = PerModelController_update(state, threads[t].step.model_id, FALSE)
    /\ threads' = [threads EXCEPT ![t].pc = "returned", ![t].ret = "False"]
    /\ UNCHANGED verifyVars
    /\ ThreadFrame

NextThreads ==
    \/ \E t \in Threads, step \in ThreadSteps : ThreadCall(t, step)
    \/ \E t \in Threads : ThreadSignature(t)
    \/ \E t \in Threads : ThreadReplay(t)
    \/ \E t \in Threads : ThreadFuture(t)
    \/ \E t \in Threads : ThreadBackward(t)
    \/ \E t \in Threads : ThreadAdd(t)
    \/ \E t \in Threads : ThreadLastTimestamp(t)
    \/ \E t \in Threads : ThreadAccept(t)
    \/ \E t \in Threads : ThreadReject(t)

SpecThreads == InitTiming /\ [][NextThreads]_vars

(***************************************************************************)
(* C23.  Serialization per identity.  When two verifications of the same   *)
(* proof (same model_id, hash and signature) are in progress at the same   *)
(* time, with the replay check and the insertion into used_proofs as       *)
(* separate steps of verify_step, at most one of them is accepted.         *)
(***************************************************************************)
C23_AtMostOneAccepted ==
    \A t1, t2 \in DOMAIN threads :
        (/\ t1 # t2
         /\ proof_id_of(threads[t1].step) = proof_id_of(threads[t2].step))
        => ~(threads[t1].ret = "True" /\ threads[t2].ret = "True")

(***************************************************************************)
(* lineage.py, models.py, run_demo.py: a caller that makes events, appends *)
(* them and has them verified in any order, and that may alter the         *)
(* event_hash field of an event it holds before handing it on.             *)
(***************************************************************************)
\* an event with its event_hash field replaced and all else kept
Altered(event) == [event EXCEPT !.event_hash = <<"altered", @>>]

\* the events the caller can hand to append and verify_event
PipelineEvents == made \cup {Altered(event) : event \in made}

\* verify_event(event, m.verify_key, ctrl, phase), m the model the event
\* names
LibVerifyEvent(event) ==
    /\ script = "library"
    /\ ncalls < MaxLibCalls
    /\ \E ok \in {demo_verify_event(event, event.model_id)} :
           /\ state' = Controller_update(state, event.model_id, ok)
           /\ ret' = IF ok THEN "True" ELSE "False"
           /\ reason' = IF ok THEN "GOOD" ELSE "BAD"
           /\ updates' = <<[model_id |-> event.model_id, valid |-> ok]>>
           /\ accepted' = IF ok THEN accepted \cup {event} ELSE accepted
    /\ call' = [op |-> "run_demo.verify_event", event |-> event]
    /\ pre' = [NoPre EXCEPT !.known = event.model_id \in DOMAIN state]
    /\ ncalls' = ncalls + 1
    /\ UNCHANGED <<script, verifyVars, demoVars, clock, controller, auxVars>>

NextPipeline ==
    \/ \E model_id \in LibModels, payload \in {"some_ai_compute"}, cheat \in BOOLEAN :
          LibMakeEvent(model_id, payload, cheat)
    \/ \E event \in PipelineEvents : LibAppend(event)
    \/ \E event \in PipelineEvents : LibVerifyEvent(event)

SpecPipeline == InitLibrary /\ [][NextPipeline]_vars

(***************************************************************************)
(* C24.  Hash bound by the signature.  For every event accepted by         *)
(* run_demo.verify_event, the event_hash field (which append makes the     *)
(* identity's last hash in the Lineage Store) is the hash the verified     *)
(* signature commits to, the payload_hash of the signed message; an event  *)
(* whose event_hash was altered while its signature was kept is rejected.  *)
(***************************************************************************)
C24_HashBoundBySignature ==
    (call.op = "run_demo.verify_event" /\ ret = "True") =>
        call.event.event_hash = call.event.payload_hash

(***************************************************************************)
(* C26.  Hash-linked chains.  After any sequence of make_event and         *)
(* LineageStore.append operations, including several events of one         *)
(* identity made before any of them is appended, every stored chain is     *)
(* hash-linked: its first event has prev_hash "GENESIS" and every later    *)
(* event's prev_hash is the event_hash of the event stored right before    *)
(* it.                                                                     *)
(***************************************************************************)
C26_HashLinkedChains ==
    \A m \in DOMAIN store :
        /\ store[m] # <<>> => store[m][1].prev_hash = GENESIS
        /\ \A i \in 2..Len(store[m]) :
              store[m][i].prev_hash = store[m][i - 1].event_hash

(***************************************************************************)
(* crypto_utils.py: the byte string hash_payload feeds to BLAKE2b.  A      *)
(* string is the tuple of its bytes; model_id and prev_hash are taken      *)
(* after .encode().                                                        *)
(***************************************************************************)
\* n.to_bytes(8, "big"), for 0 <= n < 2^64; ByteAt(n, k) is the byte of
\* weight 256^k
RECURSIVE ByteAt(_, _)
ByteAt(n, k) == IF k = 0 THEN n % 256 ELSE ByteAt(n \div 256, k - 1)
to_bytes8(n) == [i \in 1..8 |-> ByteAt(n, 8 - i)]

\* what the five h.update calls have fed to the hash, in order
payload_bytes(model_id, idx, prev_hash, payload, ts) ==
    model_id \o to_bytes8(idx) \o prev_hash \o payload \o to_bytes8(ts)

\* the byte strings explored: up to MaxBytes times the letter "a" (byte 97)
ByteStrings == UNION {[1..n -> {97}] : n \in 0..MaxBytes}

\* the argument tuples explored
PayloadArgs ==
    [model_id : ByteStrings, index : {0, 1}, prev_hash : ByteStrings,
     payload : ByteStrings, ts : {0, 256}]

\* the arguments of the two calls to come
InitEncoding ==
    /\ script = "hash_payload"
    /\ state = EmptyDict
    /\ \E a \in PayloadArgs, b \in PayloadArgs :
          call = [op |-> "arguments", first |-> a, second |-> b]
    /\ pre = NoPre /\ ret = None /\ reason = "" /\ updates = <<>>
    /\ accepted = {} /\ ncalls = 0 /\ tally = EmptyDict /\ made = {}
    /\ highest = EmptyDict /\ threads = EmptyDict /\ all_proofs = <<>>
    /\ models_dict = EmptyDict
    /\ IdleVerify /\ IdleDemo /\ IdleReplay /\ IdleClock

\* hash_payload called on each tuple: ret is the pair of byte strings hashed
HashPayloadTwice ==
    /\ script = "hash_payload"
    /\ call.op = "arguments"
    /\ call' = [call EXCEPT !.op = "hash_payload"]
    /\ ret' = <<payload_bytes(call.first.model_id, call.first.index,
                              call.first.prev_hash, call.first.payload,
                              call.first.ts),
                payload_bytes(call.second.model_id, call.second.index,
                              call.second.prev_hash, call.second.payload,
                              call.second.ts)>>
    /\ ncalls' = ncalls + 2
    /\ UNCHANGED <<script, state, verifyVars, demoVars, pre, reason, updates,
                   accepted, clock, controller, auxVars>>

NextEncoding == HashPayloadTwice

SpecEncoding == InitEncoding /\ [][NextEncoding]_vars

(***************************************************************************)
(* C25.  Unambiguous encoding.  The byte string hash_payload feeds to the  *)
(* hash (model_id bytes, 8-byte index, prev_hash bytes, payload bytes,     *)
(* 8-byte ts, concatenated) is injective: two different tuples (model_id,  *)
(* index, prev_hash, payload, ts) never yield the same byte string.        *)
(***************************************************************************)
C25_InjectiveEncoding ==
    (call.op = "hash_payload" /\ call.first # call.second) => ret[1] # ret[2]

(***************************************************************************)
(* Both verification pipelines, with the history of accepted timestamps:   *)
(* highest is, per identity, the highest timestamp of an accepted proof.   *)
(***************************************************************************)
VerifyStepTracked(step, global_time) ==
    /\ ncalls < MaxCalls
    /\ VerifyStepCall(step, global_time)
    /\ highest' = Highest(step.model_id, step.timestamp, ret')
    /\ UNCHANGED models_dict

VerifyEventTracked(e) ==
    /\ ncalls < MaxCalls
    /\ VerifyEventCall(e)
    /\ highest' = Highest(e.model_id, e.timestamp, ret')
    /\ UNCHANGED models_dict

NextHistory ==
    \/ \E step \in Steps, global_time \in GlobalTimes :
          VerifyStepTracked(step, global_time)
    \/ \E e \in Events : VerifyEventTracked(e)

SpecHistory == InitVerify /\ [][NextHistory]_vars

(***************************************************************************)
(* C27 as claimed.  Backdating defence over a whole history: no proof      *)
(* accepted by verify_step or verify_event has a timestamp more than       *)
(* MAX_BACKWARD_DRIFT (10) below the highest timestamp accepted before     *)
(* for its identity.  (highest counts the accepted proof itself, which     *)
(* changes nothing: a proof is never below its own timestamp.)             *)
(***************************************************************************)
C27_Original ==
    (IsVerify(call) /\ ret = "True") =>
        call.step.timestamp + MAX_BACKWARD_DRIFT >= highest[call.step.model_id]

(***************************************************************************)
(* C27.  Backdating defence, step by step: no proof accepted by            *)
(* verify_step or verify_event has a timestamp more than                   *)
(* MAX_BACKWARD_DRIFT (10) below the timestamp of the proof accepted last  *)
(* before it for its identity.                                             *)
(***************************************************************************)
C27_BackdatingDefence ==
    (IsVerify(call) /\ ret = "True") =>
        \A t \in pre.last_t : call.step.timestamp + MAX_BACKWARD_DRIFT >= t

\* a proof accepted within the drift of the proof accepted before it, and
\* more than the drift below the highest timestamp accepted for its identity
C27_Witness ==
    /\ IsVerify(call)
    /\ ret = "True"
    /\ pre.last_t # {}
    /\ call.step.timestamp + MAX_BACKWARD_DRIFT < highest[call.step.model_id]

(***************************************************************************)
(* C28.  In poci_demosim.verify_event the TIME_FUTURE rejection is         *)
(* unreachable: the future check compares the timestamp with itself plus   *)
(* MAX_FUTURE_DRIFT, so no submission, whatever the event, its timestamp   *)
(* and the state before, is rejected with reason TIME_FUTURE.              *)
(***************************************************************************)
C28_NoTimeFuture ==
    call.op = "verify_event" => reason # "TIME_FUTURE"

\* an event stamped more than MAX_FUTURE_DRIFT after the identity's last
\* accepted timestamp, accepted
C28_Witness ==
    /\ call.op = "verify_event"
    /\ ret = "True"
    /\ \E t \in pre.last_t : call.step.timestamp > t + MAX_FUTURE_DRIFT

(***************************************************************************)
(* poci_demosim.py, __main__: the four phases of the full network          *)
(* simulation, for the honest core and the time attacker.  The four other  *)
(* models submit their own events in between (six events per round, the    *)
(* honest core first and the time attacker last); their records are their  *)
(* own, so they are left out.                                              *)
(***************************************************************************)
BOOTSTRAP_ROUNDS == 10
NORMAL_ROUNDS == 15
ATTACK_ROUNDS == 10
RECOVERY_ROUNDS == 20
MODELS_PER_ROUND == 6
START_TIME == 1000
TIME_STEP == 5

\* the round in which the attack phase starts, and the number of rounds
AttackStart == BOOTSTRAP_ROUNDS + NORMAL_ROUNDS
SimRounds == AttackStart + ATTACK_ROUNDS + RECOVERY_ROUNDS

\* None, where a string is expected
NoString == <<>>

\* BaseModel.__init__ / TimeAttackModel.__init__
NewModel ==
    [logical_idx |-> 0, replay_hash |-> NoString, replay_sig |-> NoString,
     mode |-> "normal"]

\* TimeAttackModel.sign(message, context): the signature returned and the
\* object afterwards
TimeAttackModel_sign(self, key, message, time_mode) ==
    LET sig == Sign(key, message)
        me == [self EXCEPT !.mode = time_mode]
    IN  IF time_mode = "normal"
        THEN [sig |-> sig,
              self |-> IF me.replay_hash = NoString
                       THEN [me EXCEPT !.replay_hash = message, !.replay_sig = sig]
                       ELSE me]
        ELSE IF time_mode = "replay"
        THEN [sig |-> IF me.replay_hash # NoString /\ me.replay_sig # NoString
                      THEN me.replay_sig ELSE sig,
              self |-> me]
        ELSE [sig |-> sig, self |-> me]

\* the model whose turn it is, and the round it is in
MainWho ==
    IF models_dict["honest_core"].logical_idx = models_dict["time_0"].logical_idx
    THEN "honest_core" ELSE "time_0"
MainRound == models_dict[MainWho].logical_idx

\* g and t when the model's event of a round is made
MainStep(who, k) ==
    MODELS_PER_ROUND * k + (IF who = "honest_core" THEN 0 ELSE MODELS_PER_ROUND - 1)
MainTime(who, k) == START_TIME + TIME_STEP * MainStep(who, k)

\* phase_attack: the time attacker's context and timestamp by round_idx
AttackMode(round_idx) == IF round_idx = 3 THEN "replay" ELSE "normal"
AttackTs(round_idx, t) ==
    IF round_idx < 3 THEN t
    ELSE IF round_idx = 3 THEN t + 5
    ELSE IF round_idx = 4 THEN t - 100
    ELSE t

InitSimMain ==
    /\ script = "poci_demosim"
    /\ state = EmptyDict
    /\ models_dict = [m \in DOMAIN SIM_MODEL_KEYS |-> NewModel]
    /\ call = NoCall /\ pre = NoPre /\ ret = None /\ reason = "" /\ updates = <<>>
    /\ accepted = {} /\ ncalls = 0 /\ tally = EmptyDict /\ made = {}
    /\ highest = EmptyDict /\ threads = EmptyDict /\ all_proofs = <<>>
    /\ IdleVerify /\ IdleDemo /\ IdleReplay /\ IdleClock

\* the next event of __main__: h = m.next_hash(g); sig = ...;
\* verify_event(g, m, phase, ts, h, sig)
SimMainEvent ==
    /\ script = "poci_demosim"
    /\ models_dict # EmptyDict
    /\ MainRound < SimRounds
    /\ LET who == MainWho
           k == MainRound
           inAttack == k >= AttackStart /\ k < AttackStart + ATTACK_ROUNDS
           t == MainTime(who, k)
           h == hash_event(MainStep(who, k), who, models_dict[who].logical_idx)
           hashed == [models_dict[who] EXCEPT !.logical_idx = @ + 1]
           signed ==
               IF who = "honest_core" \/ k < BOOTSTRAP_ROUNDS
               THEN [sig |-> Sign(SIM_MODEL_KEYS[who], h), self |-> hashed]
               ELSE TimeAttackModel_sign(
                        hashed, SIM_MODEL_KEYS[who], h,
                        IF inAttack THEN AttackMode(k - AttackStart) ELSE "normal")
           ts == IF who = "time_0" /\ inAttack
                 THEN AttackTs(k - AttackStart, t) ELSE t
       IN  /\ VerifyEventCall(MkStep(who, h, signed.sig, ts))
           /\ models_dict' = [models_dict EXCEPT ![who] = signed.self]
    /\ UNCHANGED highest

NextSimMain == SimMainEvent

SpecSimMain == InitSimMain /\ [][NextSimMain]_vars

(***************************************************************************)
(* C29.  In the full network simulation, the TimeAttackModel's replay      *)
(* attempt (time_mode = "replay": it returns the signature it cached from  *)
(* an earlier accepted proof) is rejected by verify_event with reason      *)
(* REPLAY.                                                                 *)
(***************************************************************************)
C29_ReplayAttemptRejected ==
    (/\ call.op = "verify_event"
     /\ call.step.model_id = "time_0"
     /\ models_dict # EmptyDict
     /\ models_dict["time_0"].mode = "replay")
    => (ret = "False" /\ reason = "REPLAY")

(***************************************************************************)
(* poci_demofork.py: verify_lineage over a chain of steps, and __main__    *)
(* verifying the real chain and an attacker's fork of it.                  *)
(***************************************************************************)
F_REWARD_W == 5        \* + 0.05
F_REWARD_THETA == 10   \* - 0.1
F_PENALTY_W == 10      \* - 0.1
F_PENALTY_THETA == 30  \* + 0.3

\* AdaptiveController.__init__
AdaptiveController_init == [theta |-> 100, weight |-> 100]

AdaptiveController_update(c, valid) ==
    IF valid
    THEN [weight |-> Min(100, c.weight + F_REWARD_W),
          theta  |-> Max(50, c.theta - F_REWARD_THETA)]
    ELSE [weight |-> Max(0, c.weight - F_PENALTY_W),
          theta  |-> Min(500, c.theta + F_PENALTY_THETA)]

\* Step(index, hash_value, signature, model_id)
ForkStep(i, h, sig, model_id) ==
    [index |-> i, hash |-> h, signature |-> sig, model_id |-> model_id]

\* verify_step(step) of poci_demofork.py: the value returned, and the
\* controller afterwards
fork_verify_step(step, c) ==
    LET ok == verify_signature("HONEST_KEY", step.signature, step.hash)
    IN  [ok |-> ok, controller |-> AdaptiveController_update(c, ok)]

\* the ancestor check made against the step's own index
lineage_hash_ok_OwnIndex(chain, i) ==
    i = 1 \/ chain[i].hash = hash_step(chain[i].index)

\* 2. Ancestor hash matching (i counts from 1)
lineage_hash_ok(chain, i) ==
    i = 1 \/ chain[i].hash = hash_step(chain[i - 1].index + 1)

\* the loop of verify_lineage from position i on: the value returned, the
\* failure printed, the controller afterwards and the controller updates
\* made, each with the index of the step it was made for
RECURSIVE lineage_loop(_, _, _, _)
lineage_loop(chain, i, c, upd) ==
    IF i > Len(chain)
    THEN [ret |-> "True", reason |-> "", controller |-> c, updates |-> upd]
    ELSE LET v == fork_verify_step(chain[i], c)
             u == Append(upd, [step |-> chain[i].index, valid |-> v.ok])
         IN  IF ~v.ok
             THEN [ret |-> "False", reason |-> "INVALID SIGNATURE",
                   controller |-> v.controller, updates |-> u]
             ELSE IF ~lineage_hash_ok(chain, i)
             THEN [ret |-> "False", reason |-> "HASH MISMATCH",
                   controller |-> v.controller, updates |-> u]
             ELSE lineage_loop(chain, i + 1, v.controller, u)

verify_lineage(chain, c) == lineage_loop(chain, 1, c, <<>>)

REAL_STEPS == 10
FORK_END == 11

\* build_real_lineage()
real_chain ==
    [i \in 1..REAL_STEPS |->
        ForkStep(i - 1, hash_step(i - 1), Sign("HONEST_KEY", hash_step(i - 1)),
                 "honest")]

\* build_attacker_fork(real_chain, fork_point)
build_attacker_fork(chain, fork_point) ==
    SubSeq(chain, 1, fork_point)
    \o [j \in 1..(FORK_END - fork_point) |->
           ForkStep(fork_point + j - 1, hash_step(fork_point + j - 1),
                    Sign("ATTACKER_KEY", hash_step(fork_point + j - 1)),
                    "attacker")]

\* the chains __main__ verifies, for every fork point
MainChains ==
    {real_chain} \cup {build_attacker_fork(real_chain, k) : k \in 0..REAL_STEPS}

\* the other chains explored: up to MaxChain steps, each with an index and
\* a hash of 0..MaxStep and the honest signature of its hash, the attacker's
\* signature of it or the honest signature of the hash of step 0
FreeSteps ==
    {ForkStep(i, h, sig, IF sig[1] = "HONEST_KEY" THEN "honest" ELSE "attacker") :
        i \in 0..MaxStep,
        <<h, sig>> \in {hs \in StepHashes \X UNION {SignaturesFor(x) : x \in StepHashes} :
                          hs[2] \in SignaturesFor(hs[1])}}
FreeChains == UNION {[1..n -> FreeSteps] : n \in 0..MaxChain}

InitFork ==
    /\ script = "poci_demofork"
    /\ controller = AdaptiveController_init
    /\ state = EmptyDict
    /\ NoHistory /\ IdleVerify /\ IdleDemo /\ IdleClock

\* verify_lineage(chain)
VerifyLineageCall(chain) ==
    /\ script = "poci_demofork"
    /\ \E out \in {verify_lineage(chain, controller)} :
           /\ controller' = out.controller
           /\ ret' = out.ret
           /\ reason' = out.reason
           /\ updates' = out.updates
    /\ call' = [op |-> "verify_lineage", chain |-> chain]
    /\ ncalls' = ncalls + 1
    /\ UNCHANGED <<script, state, verifyVars, demoVars, pre, accepted, clock,
                   auxVars>>

\* a chain verified with the controller as constructed
VerifyFreeChain ==
    /\ ncalls = 0
    /\ \E chain \in FreeChains : VerifyLineageCall(chain)

\* the real chain and its forks verified one after the other
VerifyMainChain(chain) ==
    /\ ncalls < MaxCalls
    /\ IF call = NoCall THEN TRUE ELSE call.chain \in MainChains
    /\ VerifyLineageCall(chain)

NextFork ==
    \/ VerifyFreeChain
    \/ \E chain \in MainChains : VerifyMainChain(chain)

SpecFork == InitFork /\ [][NextFork]_vars

\* the positions of a chain at which a check of verify_lineage fails
FailingAt(chain) ==
    {i \in 1..Len(chain) :
        \/ chain[i].signature # <<"HONEST_KEY", chain[i].hash>>
        \/ i > 1 /\ chain[i].hash # hash_step(chain[i - 1].index + 1)}

\* the least element of a non-empty set of numbers
Least(S) == CHOOSE x \in S : \A y \in S : x <= y

(***************************************************************************)
(* C30.  verify_lineage(chain) returns True exactly when every step        *)
(* carries the honest key's signature over its hash and every step after   *)
(* the first has hash = hash_step(previous step's index + 1).  At the      *)
(* first failing step it returns False: the steps up to and including that *)
(* one are verified, each with one controller update, and no later step is *)
(* verified or causes a controller update.  In particular a chain forked   *)
(* at step k with attacker-signed steps is rejected at step k, while the   *)
(* honest 10-step chain verifies.                                          *)
(***************************************************************************)
C30_VerifyLineage ==
    call.op = "verify_lineage" =>
        \A bad \in {FailingAt(call.chain)} :
            /\ ret = "True" <=> bad = {}
            /\ ret \in {"True", "False"}
            /\ bad = {} => Len(updates) = Len(call.chain)
            /\ bad # {} => Len(updates) = Least(bad)
            /\ \A i \in 1..Len(updates) : updates[i].step = call.chain[i].index
            /\ call.chain = real_chain => ret = "True"
            /\ \A k \in 0..REAL_STEPS :
                  (/\ Len(call.chain) = FORK_END
                   /\ call.chain = build_attacker_fork(real_chain, k)) =>
                      /\ ret = "False"
                      /\ Len(updates) = k + 1
                      /\ updates[k + 1].step = k

\* the fork at step 5 rejected at step 5, after the real chain was verified
C30_Witness ==
    /\ call.op = "verify_lineage"
    /\ call.chain = build_attacker_fork(real_chain, 5)
    /\ ret = "False"
    /\ Len(updates) = 6
    /\ ncalls = 2
    /\ controller.theta = 50 + F_PENALTY_THETA

(***************************************************************************)
(* C31.  Every step that verify_lineage rejects, for an invalid signature  *)
(* or for a hash mismatch, gets exactly one controller update, with        *)
(* valid = False, and no update with valid = True: when verify_lineage     *)
(* returns False, the one update made for the step it stopped at (the last *)
(* update) has valid = False.                                              *)
(***************************************************************************)
C31_RejectedStepPenalised ==
    (call.op = "verify_lineage" /\ ret = "False") =>
        /\ updates[Len(updates)].step = call.chain[Len(updates)].index
        /\ updates[Len(updates)].valid = FALSE

(***************************************************************************)
(* The single-agent Controller class (fields s, w, theta) of the demo      *)
(* scripts that carry their own copy of it.  The copies differ in their    *)
(* step sizes only; here the numbers are thousandths (0.015 is 15).        *)
(***************************************************************************)
\* per script, the steps of the reward branch and of the penalty branch
AgentLaws ==
    [poci_demoMA       |-> [rs |-> 30,  rw |-> 20, rt |-> 30,
                            ps |-> 50,  pw |-> 40, pt |-> 70],
     poci_demoTRIAD    |-> [rs |-> 30,  rw |-> 20, rt |-> 30,
                            ps |-> 50,  pw |-> 40, pt |-> 70],
     poci_demobig      |-> [rs |-> 50,  rw |-> 30, rt |-> 50,
                            ps |-> 100, pw |-> 80, pt |-> 150],
     poci_demoblind    |-> [rs |-> 20,  rw |-> 15, rt |-> 20,
                            ps |-> 40,  pw |-> 30, pt |-> 50],
     poci_demochaos    |-> [rs |-> 30,  rw |-> 20, rt |-> 30,
                            ps |-> 50,  pw |-> 40, pt |-> 70],
     poci_demodrift    |-> [rs |-> 100, rw |-> 50, rt |-> 100,
                            ps |-> 200, pw |-> 150, pt |-> 500],
     poci_demorecovery |-> [rs |-> 30,  rw |-> 20, rt |-> 30,
                            ps |-> 50,  pw |-> 40, pt |-> 70]]

\* Controller.__init__
AgentController_init == [theta |-> 1000, w |-> 1000, s |-> 0]

\* Controller.update(sig_good), with the steps of the script's copy
AgentController_update(law, c, sig_good) ==
    IF sig_good
    THEN [s     |-> Min(1000, c.s + law.rs),
          w     |-> Min(1000, c.w + law.rw),
          theta |-> Max(1000, c.theta - law.rt)]
    ELSE [s     |-> Max(0, c.s - law.ps),
          w     |-> Max(0, c.w - law.pw),
          theta |-> Min(10000, c.theta + law.pt)]

InitAgent ==
    /\ script \in DOMAIN AgentLaws
    /\ controller = AgentController_init
    /\ state = EmptyDict
    /\ NoHistory /\ IdleVerify /\ IdleDemo /\ IdleClock

\* one call ctrl.update(sig_good)
AgentUpdate(sig_good) ==
    /\ script \in DOMAIN AgentLaws
    /\ ncalls < MaxUpdates
    /\ controller' = AgentController_update(AgentLaws[script], controller, sig_good)
    /\ call' = [op |-> "update", sig_good |-> sig_good]
    /\ updates' = <<[valid |-> sig_good]>>
    /\ ncalls' = ncalls + 1
    /\ UNCHANGED <<script, state, verifyVars, demoVars, pre, ret, reason,
                   accepted, clock, auxVars>>

NextAgent == \E sig_good \in BOOLEAN : AgentUpdate(sig_good)

SpecAgent == InitAgent /\ [][NextAgent]_vars

(***************************************************************************)
(* C32.  Required asymmetry, in every controller parameterization: from a  *)
(* state where no clamp binds, an update with an invalid proof lowers the  *)
(* weight by at least 2 times what an update with a valid proof raises it, *)
(* and raises theta by at least 3 times what a valid one lowers it.        *)
(***************************************************************************)
C32_RequiredAsymmetry ==
    script \in DOMAIN AgentLaws =>
        \A up \in {AgentController_update(AgentLaws[script], controller, TRUE)} :
        \A dn \in {AgentController_update(AgentLaws[script], controller, FALSE)} :
            /\ (up.w < 1000 /\ dn.w > 0) =>
                   controller.w - dn.w >= 2 * (up.w - controller.w)
            /\ (up.theta > 1000 /\ dn.theta < 10000) =>
                   dn.theta - controller.theta >= 3 * (controller.theta - up.theta)

(***************************************************************************)
(* controller.py: the Controller updated for one identity, with the trail  *)
(* of its last two updates: tally.flags are their valid flags, oldest      *)
(* first, and tally.weights the identity's weight (as Controller.get       *)
(* returns it) just before each of them.                                   *)
(***************************************************************************)
TrailAdd(t, weight, valid) ==
    IF Len(t.flags) < 2
    THEN [flags |-> Append(t.flags, valid), weights |-> Append(t.weights, weight)]
    ELSE [flags |-> <<t.flags[2], valid>>, weights |-> <<t.weights[2], weight>>]

InitTrail ==
    /\ script = "controller"
    /\ state = EmptyDict
    /\ call = NoCall /\ pre = NoPre /\ ret = None /\ reason = ""
    /\ updates = <<>> /\ accepted = {} /\ ncalls = 0
    /\ tally = [flags |-> <<>>, weights |-> <<>>]
    /\ made = {}
    /\ highest = EmptyDict /\ threads = EmptyDict
    /\ all_proofs = <<>> /\ models_dict = EmptyDict
    /\ IdleVerify /\ IdleDemo /\ IdleReplay /\ IdleClock

TrailUpdate(valid) ==
    /\ UpdateCall(NoisyId, valid)
    /\ tally' = TrailAdd(tally, Controller_get(state, NoisyId).value[1], valid)

NextTrail == \E valid \in BOOLEAN : TrailUpdate(valid)

SpecTrail == InitTrail /\ [][NextTrail]_vars

\* the last two updates were an invalid one followed by a valid one
PairDone == tally.flags = <<FALSE, TRUE>>

(***************************************************************************)
(* C33 as claimed.  From every reachable trust state, one invalid update   *)
(* followed immediately by one valid update leaves weight no higher than   *)
(* it was before the pair.                                                 *)
(***************************************************************************)
C33_Original ==
    PairDone => state[NoisyId].weight <= tally.weights[1]

(***************************************************************************)
(* C33, amended.  From every reachable trust state with weight at least    *)
(* 0.03, one invalid update followed immediately by one valid update       *)
(* leaves weight no higher than it was before the pair.                    *)
(***************************************************************************)
C33_PunishmentDominates ==
    (PairDone /\ tally.weights[1] >= REWARD_W) =>
        state[NoisyId].weight <= tally.weights[1]

\* the pair made from weight 0.06: the penalty clamps at 0.0 and the reward
\* brings the weight back to 0.03
C33_Witness ==
    /\ PairDone
    /\ tally.weights = <<6, 0>>
    /\ state[NoisyId].weight = REWARD_W

(***************************************************************************)
(* poci_demoadvpat.py: one adversarial model, one Controller, and the      *)
(* phases phase_periodic(period) and phase_threshold_cheat, each run from  *)
(* the fresh controller for as many steps as its argument steps says.      *)
(* pc holds the phase and its loop counter k; the step index i is k, as    *)
(* the phase starts at 0.  tally is the trail of the valid flags of the    *)
(* last 20 calls of verify_step, oldest first.                             *)
(***************************************************************************)
THETA_THRESHOLD == 70   \* theta_threshold=0.7

\* the weight reward too small for four valid proofs to undo one penalty
AdvController_update_SmallReward(c, valid) ==
    IF valid
    THEN [weight |-> Min(100, c.weight + 2),
          theta  |-> Max(50, c.theta - 8)]
    ELSE [weight |-> Max(0, c.weight - 10),
          theta  |-> Min(500, c.theta + 30)]

\* Controller.update(valid) of poci_demoadvpat.py
AdvController_update(c, valid) ==
    IF valid
    THEN [weight |-> Min(100, c.weight + 3),
          theta  |-> Max(50, c.theta - 8)]
    ELSE [weight |-> Max(0, c.weight - 10),
          theta  |-> Min(500, c.theta + 30)]

\* AdversarialModel.sign(msg, force_bad), with cheat_prob = 0.0
AdversarialModel_sign(key, msg, force_bad) ==
    IF force_bad THEN Sign(key, Reversed(msg)) ELSE Sign(key, msg)

\* the flag verify_step(step_num, model, phase_label, force_bad) computes
adv_verify_step(step_num, force_bad) ==
    verify_signature("ADV_KEY",
                     AdversarialModel_sign("ADV_KEY", hash_step(step_num), force_bad),
                     hash_step(step_num))

\* the threshold test made against 0.9
force_bad_of_HighThreshold(p, c) ==
    IF p.phase = "PERIODIC" THEN p.k % p.period = 0
    ELSE c.theta <= 90

\* force_bad as the phase at pc computes it
force_bad_of(p, c) ==
    IF p.phase = "PERIODIC" THEN p.k % p.period = 0
    ELSE c.theta <= THETA_THRESHOLD

InitAdvpat ==
    /\ script = "poci_demoadvpat"
    /\ controller = [weight |-> 100, theta |-> 100]
    /\ pc \in {[phase |-> "PERIODIC", period |-> p, k |-> 0] :
                  p \in MinPeriod..MaxPeriod}
              \cup {[phase |-> "THRESH-HACK", period |-> 0, k |-> 0]}
    /\ state = EmptyDict
    /\ store = EmptyDict /\ index = EmptyDict /\ ev = None
    /\ NoHistory /\ IdleVerify /\ IdleClock

\* one turn of the phase's loop: verify_step(i, model, label, force_bad)
AdvStep ==
    /\ script = "poci_demoadvpat"
    /\ pc.k < MaxAdvSteps
    /\ \E valid \in {adv_verify_step(pc.k, force_bad_of(pc, controller))} :
           /\ controller' = AdvController_update(controller, valid)
           /\ call' = [op |-> "verify_step", step_num |-> pc.k, valid |-> valid]
           /\ ret' = IF valid THEN "True" ELSE "False"
           /\ updates' = <<[valid |-> valid]>>
           /\ tally' = IF Len(tally) < 20 THEN Append(tally, valid)
                       ELSE Append(Tail(tally), valid)
    /\ pc' = [pc EXCEPT !.k = pc.k + 1]
    /\ ncalls' = ncalls + 1
    /\ UNCHANGED <<script, state, verifyVars, store, index, ev, pre, reason,
                   accepted, clock, made, histVars>>

NextAdvpat == AdvStep

SpecAdvpat == InitAdvpat /\ [][NextAdvpat]_vars /\ WF_vars(NextAdvpat)

Periodic(lo, hi) == pc.phase = "PERIODIC" /\ pc.period \in lo..hi

(***************************************************************************)
(* C34.  Periodic cheating from the fresh state, an invalid proof as the   *)
(* first of every p proofs (p in 2..6): for p <= 4 the weight eventually   *)
(* reaches 0.0; for p >= 5 it is 1.0 before every invalid proof and never  *)
(* below 0.90, so it never reaches 0.0.                                    *)
(***************************************************************************)
C34_PeriodicCheating ==
    /\ [](Periodic(5, MaxPeriod) =>
            /\ controller.weight >= 90
            /\ (pc.k % pc.period = 0 => controller.weight = 100))
    /\ (Periodic(MinPeriod, 4) /\ pc.k = 0) ~> (controller.weight = 0)

\* the weight at 0.0 with an invalid proof every 4 proofs
C34_Witness ==
    /\ Periodic(4, 4)
    /\ controller.weight = 0
    /\ call.op = "verify_step" /\ ~call.valid

Limb == 2^29

\* the binary64 numbers of controller.py, in units
B64 ==
    [w_init       |-> <<536870912, 0>>,         \* 1.0
     w_max        |-> <<536870912, 0>>,         \* 1.0
     w_min        |-> <<0, 0>>,                 \* 0.0
     w_reward     |-> <<16106127, 193273528>>,  \* 0.03
     w_penalty    |-> <<53687091, 107374184>>,  \* 0.10
     theta_init   |-> <<134217728, 0>>,         \* 1.0
     theta_min    |-> <<67108864, 0>>,          \* 0.5
     theta_max    |-> <<671088640, 0>>,         \* 5.0
     theta_reward |-> <<10737418, 128849019>>,  \* 0.08
     theta_penalty |-> <<40265318, 214748364>>] \* 0.30

\* a <= b
b64_le(a, b) == a[1] < b[1] \/ (a[1] = b[1] /\ a[2] <= b[2])

\* the exact sum and, for b <= a, the exact difference
b64_sum(a, b) ==
    <<a[1] + b[1] + (a[2] + b[2]) \div Limb, (a[2] + b[2]) % Limb>>
b64_diff(a, b) ==
    IF a[2] >= b[2] THEN <<a[1] - b[1], a[2] - b[2]>>
    ELSE <<a[1] - b[1] - 1, a[2] + Limb - b[2]>>

\* the number of bits of n (n < 2^30)
BitLen(n) == CHOOSE k \in 0..30 : n < 2^k /\ (k = 0 \/ n >= 2^(k - 1))

\* x rounded to 53 significant bits, ties to even: the low d bits go, where
\* d = (29 + BitLen(hi)) - 53
b64_round(x) ==
    LET d == BitLen(x[1]) - 24
        m == 2^d
        r == x[2] % m
        down == x[2] - r
        up == r * 2 > m \/ (r * 2 = m /\ (x[2] \div m) % 2 = 1)
        lo == IF up THEN down + m ELSE down
    IN  IF d <= 0 THEN x
        ELSE <<x[1] + lo \div Limb, lo % Limb>>

\* a + b and a - b as Python computes them (a - b for b <= a)
b64_add(a, b) == b64_round(b64_sum(a, b))
b64_sub(a, b) == b64_round(b64_diff(a, b))

\* min(a, b) and max(a, b) of Python: the first argument unless the second
\* is strictly smaller (larger)
b64_min(a, b) == IF b64_le(a, b) THEN a ELSE b
b64_max(a, b) == IF b64_le(b, a) THEN a ELSE b

\* the weight penalised by 0.03 only
Controller_law_b64_SlowPenalty(m, valid) ==
    IF valid
    THEN [weight |-> b64_min(B64.w_max, b64_add(m.weight, B64.w_reward)),
          theta  |-> b64_max(B64.theta_min, b64_sub(m.theta, B64.theta_reward))]
    ELSE [weight |-> IF b64_le(m.weight, B64.w_reward) THEN B64.w_min
                     ELSE b64_max(B64.w_min, b64_sub(m.weight, B64.w_reward)),
          theta  |-> b64_min(B64.theta_max, b64_add(m.theta, B64.theta_penalty))]

\* the body of Controller.update after _ensure; weight - 0.10 below zero is
\* not computed, as max(0.0, ...) then yields 0.0
Controller_law_b64(m, valid) ==
    IF valid
    THEN [weight |-> b64_min(B64.w_max, b64_add(m.weight, B64.w_reward)),
          theta  |-> b64_max(B64.theta_min, b64_sub(m.theta, B64.theta_reward))]
    ELSE [weight |-> IF b64_le(m.weight, B64.w_penalty) THEN B64.w_min
                     ELSE b64_max(B64.w_min, b64_sub(m.weight, B64.w_penalty)),
          theta  |-> b64_min(B64.theta_max, b64_add(m.theta, B64.theta_penalty))]

\* Controller.update(model_id, valid)
Controller_update_b64(st, model_id, valid) ==
    LET s1 == IF model_id \in DOMAIN st THEN st
              ELSE Put(st, model_id, [weight |-> B64.w_init, theta |-> B64.theta_init])
    IN  Put(s1, model_id, Controller_law_b64(s1[model_id], valid))

\* tally: the flag of the last update and the number of updates with that
\* flag made in a row
InitRuns ==
    /\ script = "controller"
    /\ state = EmptyDict
    /\ call = NoCall /\ pre = NoPre /\ ret = None /\ reason = ""
    /\ updates = <<>> /\ accepted = {} /\ ncalls = 0
    /\ tally = [flag |-> {}, run |-> 0]
    /\ made = {}
    /\ highest = EmptyDict /\ threads = EmptyDict
    /\ all_proofs = <<>> /\ models_dict = EmptyDict
    /\ IdleVerify /\ IdleDemo /\ IdleReplay /\ IdleClock

\* one call ctrl.update(model_id, valid): any of the first MaxFree calls, and
\* after them the calls that prolong the run of equal flags, up to MaxRun
RunUpdate(valid) ==
    /\ script = "controller"
    /\ ncalls < MaxFree \/ (tally.flag = {valid} /\ tally.run < MaxRun)
    /\ state' = Controller_update_b64(state, NoisyId, valid)
    /\ call' = [op |-> "update", model_id |-> NoisyId, valid |-> valid]
    /\ updates' = <<[model_id |-> NoisyId, valid |-> valid]>>
    /\ tally' = [flag |-> {valid},
                 run |-> IF tally.flag = {valid} THEN tally.run + 1 ELSE 1]
    /\ ncalls' = ncalls + 1
    /\ UNCHANGED <<script, verifyVars, demoVars, pre, ret, reason, accepted,
                   clock, controller, made, histVars>>

NextRuns == \E valid \in BOOLEAN : RunUpdate(valid)

SpecRuns == InitRuns /\ [][NextRuns]_vars

\* the last n updates, or more, were all made with this flag
RunOf(valid, n) == tally.flag = {valid} /\ tally.run >= n

(***************************************************************************)
(* C36 as claimed.  From every reachable trust state, 34 consecutive valid *)
(* updates bring weight to exactly 1.0 and 57 bring theta to exactly 0.5;  *)
(* 10 consecutive invalid updates bring weight to 0.0 and 15 bring theta   *)
(* to 5.0.                                                                 *)
(***************************************************************************)
C36_Original ==
    /\ RunOf(TRUE, 34) => state[NoisyId].weight = B64.w_max
    /\ RunOf(TRUE, 57) => state[NoisyId].theta = B64.theta_min
    /\ RunOf(FALSE, 10) => state[NoisyId].weight = B64.w_min
    /\ RunOf(FALSE, 15) => state[NoisyId].theta = B64.theta_max

(***************************************************************************)
(* C36, amended.  From every reachable trust state, 34 consecutive valid   *)
(* updates bring weight to exactly 1.0 and 57 bring theta to exactly 0.5;  *)
(* 11 consecutive invalid updates bring weight to 0.0 and 16 bring theta   *)
(* to 5.0.                                                                 *)
(***************************************************************************)
C36_BoundedRecovery ==
    /\ RunOf(TRUE, 34) => state[NoisyId].weight = B64.w_max
    /\ RunOf(TRUE, 57) => state[NoisyId].theta = B64.theta_min
    /\ RunOf(FALSE, 11) => state[NoisyId].weight = B64.w_min
    /\ RunOf(FALSE, 16) => state[NoisyId].theta = B64.theta_max

\* ten invalid updates of a fresh identity leave the weight 40 units of
\* 2^-58 (1.3877787807814457e-16), and the eleventh brings it to 0.0
C36_Witness ==
    /\ RunOf(FALSE, 11) /\ ncalls = 11
    /\ state[NoisyId].weight = B64.w_min

(***************************************************************************)
(* poci_demo.py: update_trust_state, the batch form of the update law, on  *)
(* one TrustState.  state.w is kept as an exact fraction in lowest terms;  *)
(* state.theta in hundredths, and the scores explored are those for which  *)
(* its step eta * (L_t - 0.5) is a whole number of hundredths.  tally      *)
(* counts the calls made since w first left 1.0: each of them multiplies   *)
(* the denominator of w, so only MaxMixed of them are explored.            *)
(***************************************************************************)
RECURSIVE Gcd(_, _)
Gcd(a, b) == IF b = 0 THEN a ELSE Gcd(b, a % b)

\* a fraction in lowest terms
Lowest(n, d) == Fraction(n \div Gcd(n, d), d \div Gcd(n, d))

\* update_trust_state(state, s_t) with eta = 0.1 and lam = 0.9:
\*   L_t = 1 - s_t; theta += eta * (L_t - 0.5); w = lam * w + (1 - lam) * s_t
update_trust_state(st, s_t) ==
    [theta |-> st.theta + (10 * (s_t.den - s_t.num) - 5 * s_t.den) \div s_t.den,
     w     |-> Lowest(9 * st.w.num * s_t.den + st.w.den * s_t.num,
                      10 * st.w.den * s_t.den)]

\* the consistency scores 0.0, 0.5 and 1.0
BatchScores == {Fraction(0, 1), Fraction(1, 2), One}

\* trust = TrustState(theta=0.0, w=1.0)
InitBatch ==
    /\ script = "poci_demo"
    /\ state = [theta |-> 0, w |-> One]
    /\ call = NoCall /\ pre = NoPre /\ ret = None /\ reason = ""
    /\ updates = <<>> /\ accepted = {} /\ ncalls = 0
    /\ tally = 0
    /\ made = {}
    /\ highest = EmptyDict /\ threads = EmptyDict
    /\ all_proofs = <<>> /\ models_dict = EmptyDict
    /\ IdleVerify /\ IdleDemo /\ IdleReplay /\ IdleClock

\* one call update_trust_state(trust, s_t)
UpdateTrustState(s_t) ==
    /\ script = "poci_demo"
    /\ ncalls < MaxBatch
    /\ IF state.w = One /\ s_t = One THEN tally' = tally
       ELSE tally < MaxMixed /\ tally' = tally + 1
    /\ state' = update_trust_state(state, s_t)
    /\ call' = [op |-> "update_trust_state", s_t |-> s_t]
    /\ ncalls' = ncalls + 1
    /\ UNCHANGED <<script, verifyVars, demoVars, pre, ret, reason, updates,
                   accepted, clock, controller, made, histVars>>

NextBatch == \E s_t \in BatchScores : UpdateTrustState(s_t)

SpecBatch == InitBatch /\ [][NextBatch]_vars

(***************************************************************************)
(* C37.  The batch form keeps the TrustState bounds: after any sequence of *)
(* update_trust_state calls with scores in [0, 1], starting from theta =   *)
(* 0.0 and w = 1.0, w stays in [0, 1] and theta stays within a fixed       *)
(* finite interval, here the interval of radius theta_max = 5.0 around the *)
(* starting theta.                                                         *)
(***************************************************************************)
C37_BatchBounds ==
    call.op = "update_trust_state" =>
        /\ 0 <= state.w.num /\ state.w.num <= state.w.den
        /\ -THETA_MAX <= state.theta /\ state.theta <= THETA_MAX

(***************************************************************************)
(* poci_demov5.py: the two-model cycle.  At every step the honest model    *)
(* adds a good proof and the noisy model a good or a bad one, and then     *)
(* each model's score over the whole list is fed to update_trust_state.    *)
(* The numbers are exact: a natural number is the sequence of its digits   *)
(* in base 10^4, lowest first; w is the fraction num / den and theta is    *)
(* (plus - minus) / den.  pc is the step; tally is the number of bad       *)
(* proofs made so far.                                                     *)
(***************************************************************************)
BigBase == 10^4

\* a * k + carry, for a number a and small k and carry
RECURSIVE BigMulSmall(_, _, _)
BigMulSmall(a, k, carry) ==
    IF a = <<>>
    THEN (IF carry = 0 THEN <<>>
          ELSE <<carry % BigBase>> \o BigMulSmall(<<>>, k, carry \div BigBase))
    ELSE <<(Head(a) * k + carry) % BigBase>>
         \o BigMulSmall(Tail(a), k, (Head(a) * k + carry) \div BigBase)

\* a * k, without leading zeros
BigTimes(a, k) == IF k = 0 THEN <<>> ELSE BigMulSmall(a, k, 0)

\* a + b + carry
RECURSIVE BigAdd(_, _, _)
BigAdd(a, b, carry) ==
    IF a = <<>> /\ b = <<>>
    THEN (IF carry = 0 THEN <<>> ELSE <<carry>>)
    ELSE LET x == IF a = <<>> THEN 0 ELSE Head(a)
             y == IF b = <<>> THEN 0 ELSE Head(b)
         IN  <<(x + y + carry) % BigBase>>
             \o BigAdd(IF a = <<>> THEN a ELSE Tail(a),
                       IF b = <<>> THEN b ELSE Tail(b),
                       (x + y + carry) \div BigBase)

\* a < b
RECURSIVE BigLess(_, _)
BigLess(a, b) ==
    IF Len(a) # Len(b) THEN Len(a) < Len(b)
    ELSE IF a = <<>> THEN FALSE
    ELSE IF a[Len(a)] # b[Len(b)] THEN a[Len(a)] < b[Len(b)]
    ELSE BigLess(SubSeq(a, 1, Len(a) - 1), SubSeq(b, 1, Len(b) - 1))

BigOne == <<1>>

\* TrustState(theta=0.0, w=1.0)
TrustState_init ==
    [theta |-> [plus |-> <<>>, minus |-> <<>>, den |-> BigOne],
     w     |-> [num |-> BigOne, den |-> BigOne]]

\* update_trust_state(state, s_t) of poci_demov5.py, for s_t = v / n:
\*   theta += 0.1 * ((1 - s_t) - 0.5), that is theta + (n - 2 v) / (20 n);
\*   w = 0.9 * w + (1 - 0.9) * s_t, that is (9 n w + v) / (10 n)
v5_update_trust_state(st, s_t) ==
    [theta |-> [plus  |-> BigAdd(BigTimes(st.theta.plus, 20 * s_t.den),
                                 BigTimes(st.theta.den, s_t.den), 0),
                minus |-> BigAdd(BigTimes(st.theta.minus, 20 * s_t.den),
                                 BigTimes(st.theta.den, 2 * s_t.num), 0),
                den   |-> BigTimes(st.theta.den, 20 * s_t.den)],
     w     |-> [num |-> BigAdd(BigTimes(st.w.num, 9 * s_t.den),
                               BigTimes(st.w.den, s_t.num), 0),
                den |-> BigTimes(st.w.den, 10 * s_t.den)]]

\* a scorer that looks at the model's latest proof only
v5_consistency_score_Latest(proofs, model_id) ==
    LET relevant == relevant_of(proofs, model_id)
    IN  IF relevant = <<>> THEN One
        ELSE Fraction(count_valid(<<relevant[Len(relevant)]>>), 1)

\* compute_consistency_score(proofs, model_id) of poci_demov5.py
v5_consistency_score(proofs, model_id) ==
    LET relevant == relevant_of(proofs, model_id)
    IN  IF relevant = <<>> THEN One
        ELSE Fraction(count_valid(relevant), Len(relevant))

HONEST_ID == "honest_model"
NOISY_ID == "noisy_model"

\* generate_proof(e, model_id) and generate_bad_proof(model_id)
v5_generate_proof(model_id) ==
    [model_id |-> model_id, hash |-> <<"sha256", "event">>,
     anchor_ref |-> mock_anchor_to_kaspa(<<"sha256", "event">>)]
v5_generate_bad_proof(model_id) ==
    [model_id |-> model_id, hash |-> EmptyHash,
     anchor_ref |-> <<"I", "N", "V", "A", "L", "I", "D">>]

InitCycle ==
    /\ script = "poci_demov5"
    /\ state = [m \in {HONEST_ID, NOISY_ID} |-> TrustState_init]
    /\ pc = 0
    /\ call = NoCall /\ pre = NoPre /\ ret = None /\ reason = ""
    /\ updates = <<>> /\ accepted = {} /\ ncalls = 0
    /\ tally = 0
    /\ made = {}
    /\ highest = EmptyDict /\ threads = EmptyDict
    /\ all_proofs = <<>> /\ models_dict = EmptyDict
    /\ store = EmptyDict /\ index = EmptyDict /\ ev = None
    /\ IdleVerify /\ IdleReplay /\ IdleClock

\* one turn of the loop "for step in range(1, N_STEPS + 1)": ret is the
\* pair of scores appended to history_s
Cycle(bad) ==
    /\ script = "poci_demov5"
    /\ pc < MaxCycles
    /\ bad => tally < MaxBad
    /\ \E proofs \in {all_proofs \o <<v5_generate_proof(HONEST_ID),
                                      IF bad THEN v5_generate_bad_proof(NOISY_ID)
                                      ELSE v5_generate_proof(NOISY_ID)>>} :
       \E s \in {[m \in {HONEST_ID, NOISY_ID} |-> v5_consistency_score(proofs, m)]} :
           /\ all_proofs' = proofs
           /\ state' = [m \in {HONEST_ID, NOISY_ID} |->
                           v5_update_trust_state(state[m], s[m])]
           /\ ret' = s
    /\ call' = [op |-> "cycle", bad |-> bad]
    /\ pc' = pc + 1
    /\ tally' = tally + (IF bad THEN 1 ELSE 0)
    /\ ncalls' = ncalls + 1
    /\ UNCHANGED <<script, verifyVars, store, index, ev, pre, reason, updates,
                   accepted, clock, controller, made, highest, threads,
                   models_dict>>

NextCycle == \E bad \in BOOLEAN : Cycle(bad)

SpecCycle == InitCycle /\ [][NextCycle]_vars

(***************************************************************************)
(* C38.  The batch form never forgets: once the noisy model has an invalid *)
(* proof in its history, at every later cycle its score is below 1 and its *)
(* w is strictly below the w of the honest model, whose proofs are all     *)
(* valid, however many valid proofs follow.                                *)
(***************************************************************************)
C38_NeverForgets ==
    (script = "poci_demov5" /\ tally > 0) =>
        /\ ret[NOISY_ID].num < ret[NOISY_ID].den
        /\ ret[HONEST_ID].num = ret[HONEST_ID].den
        /\ state[NOISY_ID].w.den = state[HONEST_ID].w.den
        /\ BigLess(state[NOISY_ID].w.num, state[HONEST_ID].w.num)
        /\ state[HONEST_ID].w.num = state[HONEST_ID].w.den

\* one bad proof at the first step and only valid proofs in every step
\* after it, to the end of the run
C38_Witness ==
    /\ script = "poci_demov5"
    /\ pc = MaxCycles /\ tally = 1
    /\ ~proof_valid(all_proofs[2])
    /\ ret[NOISY_ID] = Fraction(MaxCycles - 1, MaxCycles)

(***************************************************************************)
(* poci_demorecovery.py: a base Controller and a DecayController side by   *)
(* side.  A decay step halves the distance to the neutral point when       *)
(* decay_rate is 1/2, so the values are kept in units of 1/Fine of a       *)
(* thousandth, which MaxDecay halvings divide exactly.  controller holds   *)
(* the two objects; tally holds the flags each of them has been fed; pre   *)
(* is the pair of objects before the last call.                            *)
(***************************************************************************)
Fine == 2^MaxDecay

\* Controller.__init__ of poci_demorecovery.py
RecoveryController_init ==
    [s |-> 0, w |-> 1000 * Fine, theta |-> 1000 * Fine]

\* Controller.update(sig_good) of poci_demorecovery.py
RecoveryController_update(c, sig_good) ==
    LET law == AgentLaws["poci_demorecovery"]
    IN  IF sig_good
        THEN [s     |-> Min(1000 * Fine, c.s + law.rs * Fine),
              w     |-> Min(1000 * Fine, c.w + law.rw * Fine),
              theta |-> Max(1000 * Fine, c.theta - law.rt * Fine)]
        ELSE [s     |-> Max(0, c.s - law.ps * Fine),
              w     |-> Max(0, c.w - law.pw * Fine),
              theta |-> Min(10000 * Fine, c.theta + law.pt * Fine)]

\* the values decay_rate takes: 0, 1/2 and 1
DecayRates == {Fraction(0, 1), Fraction(1, 2), One}

\* x * (1 - d) + neutral * d
Pull(x, neutral, d) == (x * (d.den - d.num) + neutral * d.num) \div d.den

\* DecayController.decay(), with the neutral point s 0.5, w 0.5, theta 3.0
DecayController_decay(c, d) ==
    [s     |-> Pull(c.s, 500 * Fine, d),
     w     |-> Pull(c.w, 500 * Fine, d),
     theta |-> Pull(c.theta, 3000 * Fine, d)]

\* a DecayController that applies the base law first and decays afterwards
DecayController_update_DecayLast(c, d, sig_good) ==
    DecayController_decay(RecoveryController_update(c, sig_good), d)

\* DecayController.update(sig_good): decay, then super().update(sig_good)
DecayController_update(c, d, sig_good) ==
    RecoveryController_update(DecayController_decay(c, d), sig_good)

\* static_ctrl = Controller(...); decay_ctrl = DecayController(..., decay_rate)
InitDecay ==
    /\ script = "poci_demorecovery"
    /\ \E d \in DecayRates :
           controller = [static |-> RecoveryController_init,
                         decay |-> RecoveryController_init,
                         decay_rate |-> d]
    /\ state = EmptyDict
    /\ call = NoCall /\ ret = None /\ reason = ""
    /\ pre = [static |-> RecoveryController_init, decay |-> RecoveryController_init]
    /\ updates = <<>> /\ accepted = {} /\ ncalls = 0
    /\ tally = [static |-> <<>>, decay |-> <<>>]
    /\ made = {}
    /\ highest = EmptyDict /\ threads = EmptyDict
    /\ all_proofs = <<>> /\ models_dict = EmptyDict
    /\ IdleVerify /\ IdleDemo /\ IdleClock

\* static_ctrl.update(sig_good)
StaticUpdate(sig_good) ==
    /\ script = "poci_demorecovery"
    /\ Len(tally.static) < MaxDecay
    /\ controller' = [controller EXCEPT
                         !.static = RecoveryController_update(@, sig_good)]
    /\ tally' = [tally EXCEPT !.static = Append(@, sig_good)]
    /\ call' = [op |-> "Controller.update", sig_good |-> sig_good]
    /\ pre' = [static |-> controller.static, decay |-> controller.decay]
    /\ ncalls' = ncalls + 1
    /\ UNCHANGED <<script, state, verifyVars, demoVars, ret, reason, updates,
                   accepted, clock, made, histVars>>

\* decay_ctrl.update(sig_good)
DecayUpdate(sig_good) ==
    /\ script = "poci_demorecovery"
    /\ Len(tally.decay) < MaxDecay
    /\ controller' = [controller EXCEPT
                         !.decay = DecayController_update(@, controller.decay_rate,
                                                          sig_good)]
    /\ tally' = [tally EXCEPT !.decay = Append(@, sig_good)]
    /\ call' = [op |-> "DecayController.update", sig_good |-> sig_good]
    /\ pre' = [static |-> controller.static, decay |-> controller.decay]
    /\ ncalls' = ncalls + 1
    /\ UNCHANGED <<script, state, verifyVars, demoVars, ret, reason, updates,
                   accepted, clock, made, histVars>>

NextDecay ==
    \/ \E sig_good \in BOOLEAN : StaticUpdate(sig_good)
    \/ \E sig_good \in BOOLEAN : DecayUpdate(sig_good)

SpecDecay == InitDecay /\ [][NextDecay]_vars

(***************************************************************************)
(* C39.  Decay is a separate layer: an update of the DecayController is    *)
(* the decay step followed by the base law and leaves the base Controller  *)
(* as it was; and with decay_rate 0 the two objects hold the same          *)
(* (s, w, theta) whenever they have been fed the same flags.               *)
(***************************************************************************)
C39_DecayIsSeparateLayer ==
    script = "poci_demorecovery" =>
        /\ call.op = "DecayController.update" =>
              /\ controller.decay =
                     RecoveryController_update(
                         DecayController_decay(pre.decay, controller.decay_rate),
                         call.sig_good)
              /\ controller.static = pre.static
        /\ (controller.decay_rate.num = 0 /\ tally.static = tally.decay) =>
              controller.decay = controller.static

\* a decaying update where the order shows: decaying after the base law
\* would have given another state
C39_Witness ==
    /\ script = "poci_demorecovery"
    /\ call.op = "DecayController.update"
    /\ controller.decay_rate = Fraction(1, 2)
    /\ Len(tally.decay) = MaxDecay
    /\ controller.decay #
           DecayController_decay(
               RecoveryController_update(pre.decay, call.sig_good),
               controller.decay_rate)

====
